---- MODULE Spec2Model ----
(***************************************************************************)
(* A model of the nodestacker server: the introduction table and its       *)
(* writers (src/api/intro-requests.ts, src/api/founder-portal.ts), the     *)
(* founder and connector task derivations, and the bulk investor-research  *)
(* job (src/api/portfolio.ts).                                             *)
(*                                                                         *)
(* Time.  Date.now() is an integer number of milliseconds counted from the *)
(* model's epoch, 2025-04-29T00:00:00.000Z, so that every instant fits the *)
(* model checker's integers.  The strings the program stores are modelled  *)
(* by their fields: "YYYY-MM-DD" is <<day>>, "YYYY-MM-DDTHH:mm:ss.sssZ" is *)
(* <<day, msOfDay>>, and null is <<>>.  Both formats are zero padded and   *)
(* fixed width, so JavaScript's < on strings is the lexicographic order on *)
(* these sequences; a date-only string is a proper prefix of every instant *)
(* of its day and therefore sorts before all of them.                      *)
(***************************************************************************)
EXTENDS Integers, Sequences, FiniteSets, TLC

VARIABLES
  now,                \* Date.now() of the server
  introRequests,      \* table intro_requests, rows in id order
  followupLogs,       \* table followup_logs, rows in id order
  founderTasks,       \* body of the last GET /tasks response (founder portal)
  nodeTasks,          \* body of the last GET /tasks/node/:nodeId response
  createPc,           \* per create-introduction request: where its handler is
  followupPc,         \* per follow-up request: where its handler is
  bulkResearchStatus, \* portfolio.ts: the module-level status object
  investorResearch,   \* table investor_research, rows in id order
  bulkPc,             \* per POST /bulk-research request: where its handler is
  bulkJobs,           \* the background loops started by POST /bulk-research
  founders,           \* table founders: roundStatus by founder id
  digest,             \* body of the last response of a digest route
  trends,             \* body of the last GET /stats/trends response
  nodes,              \* table nodes: the ids of its rows
  introSeq,           \* sqlite_sequence of intro_requests: the last id given
  deletion,           \* body of the last response of a DELETE route
  tokens,             \* auth.ts, admin-auth.ts: the magic-link tokens
  sessions,           \* auth.ts, admin-auth.ts: the sessions
  authLog             \* what the auth routes have answered so far

vars == <<now, introRequests, followupLogs, founderTasks, nodeTasks, createPc,
          followupPc, bulkResearchStatus, investorResearch, bulkPc, bulkJobs,
          founders, digest, trends, nodes, introSeq, deletion, tokens,
          sessions, authLog>>

introVars == <<introRequests, followupLogs, createPc, followupPc>>
taskVars == <<founderTasks, nodeTasks>>
bulkVars == <<bulkResearchStatus, investorResearch, bulkPc, bulkJobs>>
digestVars == <<founders, digest, trends>>
storeVars == <<nodes, introSeq, deletion>>
authVars == <<tokens, sessions, authLog>>

----------------------------------------------------------------------------
(* Strings, dates and instants *)

Null == <<>>

MsPerDay == 24 * 60 * 60 * 1000

FourteenDaysMs == 14 * 24 * 60 * 60 * 1000

ThreeDaysMs == 3 * 24 * 60 * 60 * 1000

\* a || b on nullable strings
OrElse(a, b) == IF a # Null THEN a ELSE b

\* new Date(t).toISOString()
toISOString(t) == <<t \div MsPerDay, t % MsPerDay>>

\* s.split('T')[0]
DatePart(s) == <<s[1]>>

\* new Date(s).getTime(): a date-only string parses as UTC midnight
getTime(s) == IF Len(s) = 1 THEN s[1] * MsPerDay ELSE s[1] * MsPerDay + s[2]

\* a < b on strings: a is a proper prefix of b, or a is smaller at the first
\* position where they differ
StrLt(a, b) ==
  \E k \in 1..Len(b) :
     /\ \A j \in 1..(k - 1) : j <= Len(a) /\ a[j] = b[j]
     /\ \/ Len(a) = k - 1
        \/ Len(a) >= k /\ a[k] < b[k]

StrGt(a, b) == StrLt(b, a)

----------------------------------------------------------------------------
(* Statuses *)

introStatusValues ==
  {"intro_request_sent", "introduced", "passed", "ignored", "not_a_fit",
   "first_meeting_complete", "second_meeting_complete", "follow_up_questions",
   "circle_back_round_opens", "invested"}

\* the skip list without invested
SkippedStatusesMissingInvested ==
  {"passed", "ignored", "not_a_fit", "intro_request_sent"}

\* the list both task derivations skip
SkippedStatuses ==
  {"passed", "ignored", "invested", "not_a_fit", "intro_request_sent"}

\* the statuses the two create routes treat as "an active intro exists"
ActiveForCreate ==
  {"intro_request_sent", "introduced", "first_meeting_complete",
   "second_meeting_complete", "follow_up_questions"}

\* the statuses a founder may set through PUT /my-intros/:id
FounderSettableStatuses ==
  {"first_meeting_complete", "second_meeting_complete", "follow_up_questions",
   "circle_back_round_opens", "invested", "not_a_fit"}

----------------------------------------------------------------------------
(* Task derivation *)

Task(type, priority, intro, message) ==
  [type |-> type, priority |-> priority, intro |-> intro.id,
   founderId |-> intro.founderId, message |-> message]

priorityOrder(p) == CASE p = "high" -> 0 [] p = "medium" -> 1 [] p = "low" -> 2

\* Array.prototype.sort with a comparator is stable: insert each element after
\* the last element that does not compare greater than it
\* an insertion that puts the element ahead of its equals
RECURSIVE InsertByUnstable(_, _)
InsertByUnstable(x, sorted) ==
  IF sorted = <<>> THEN <<x>>
  ELSE IF x.key <= Head(sorted).key THEN <<x>> \o sorted
  ELSE <<Head(sorted)>> \o InsertByUnstable(x, Tail(sorted))

RECURSIVE InsertBy(_, _)
InsertBy(x, sorted) ==
  IF sorted = <<>> THEN <<x>>
  ELSE IF x.key < Head(sorted).key THEN <<x>> \o sorted
  ELSE <<Head(sorted)>> \o InsertBy(x, Tail(sorted))

\* s is a sequence of [key, item] records
RECURSIVE SortBy(_)
SortBy(s) ==
  IF s = <<>> THEN <<>>
  ELSE InsertBy(s[Len(s)], SortBy(SubSeq(s, 1, Len(s) - 1)))

Items(s) == [i \in 1..Len(s) |-> s[i].item]

\* tasks.sort((a, b) => priorityOrder[a.priority] - priorityOrder[b.priority])
SortTasks(tasks) ==
  Items(SortBy([i \in 1..Len(tasks) |->
                  [key |-> priorityOrder(tasks[i].priority), item |-> tasks[i]]]))

\* the pushes of a loop, one sequence per iteration, in order
RECURSIVE Flatten(_)
Flatten(ss) == IF ss = <<>> THEN <<>> ELSE Head(ss) \o Flatten(Tail(ss))

\* the touch test with >= in place of >
founderHasTouchedInclusive(intro) ==
  getTime(OrElse(intro.updatedAt, intro.createdAt)) - getTime(intro.createdAt) >= 60000

\* founder-portal.ts: (updatedTime - createdTime) > 60000
founderHasTouched(intro) ==
  getTime(OrElse(intro.updatedAt, intro.createdAt)) - getTime(intro.createdAt) > 60000

\* intro-requests.ts: the same test in the connector derivation
hasBeenUpdated(intro) ==
  getTime(OrElse(intro.updatedAt, intro.createdAt)) - getTime(intro.createdAt) > 60000

\* the switch of GET /tasks
FounderMessage(status) ==
  CASE status = "introduced" -> "how did it go?"
    [] status = "first_meeting_complete" -> "next steps?"
    [] status = "second_meeting_complete" -> "what's the outcome?"
    [] status = "follow_up_questions" -> "has follow-up questions"
    [] status = "circle_back_round_opens" -> "Time to reconnect"
    [] OTHER -> "Update needed"

\* the loop body with the touch rules ahead of the explicit dates
FounderTasksForTouchFirst(intro, t) ==
  LET today == DatePart(toISOString(t))
      fourteenDaysAgo == toISOString(t - FourteenDaysMs)
  IN  IF intro.status \in SkippedStatuses THEN <<>>
      ELSE IF /\ founderHasTouched(intro)
              /\ intro.updatedAt # Null
              /\ StrGt(intro.updatedAt, fourteenDaysAgo)
        THEN <<>>
      ELSE IF intro.nextFollowupDate # Null /\ StrLt(intro.nextFollowupDate, today)
        THEN <<Task("overdue_followup", "high", intro, "was due")>>
      ELSE IF intro.nextFollowupDate = today
        THEN <<Task("due_today", "high", intro, "today")>>
      ELSE IF founderHasTouched(intro)
        THEN <<Task("check_in", "medium", intro, "Check in")>>
      ELSE <<Task("needs_update", "high", intro, FounderMessage(intro.status))>>

\* the loop body with a three-day grace period for rows never touched
FounderTasksForWithGrace(intro, t) ==
  LET today == DatePart(toISOString(t))
      fourteenDaysAgo == toISOString(t - FourteenDaysMs)
      threeDaysAgo == toISOString(t - ThreeDaysMs)
  IN  IF intro.status \in SkippedStatuses THEN <<>>
      ELSE IF intro.nextFollowupDate # Null /\ StrLt(intro.nextFollowupDate, today)
        THEN <<Task("overdue_followup", "high", intro, "was due")>>
      ELSE IF intro.nextFollowupDate = today
        THEN <<Task("due_today", "high", intro, "today")>>
      ELSE IF /\ founderHasTouched(intro)
              /\ intro.updatedAt # Null
              /\ StrGt(intro.updatedAt, fourteenDaysAgo)
        THEN <<>>
      ELSE IF founderHasTouched(intro)
        THEN <<Task("check_in", "medium", intro, "Check in")>>
      ELSE IF StrGt(intro.createdAt, threeDaysAgo) THEN <<>>
      ELSE <<Task("needs_update", "high", intro, FounderMessage(intro.status))>>

\* one iteration of the loop of GET /tasks: the tasks pushed for one row
FounderTasksFor(intro, t) ==
  LET today == DatePart(toISOString(t))
      fourteenDaysAgo == toISOString(t - FourteenDaysMs)
  IN  IF intro.status \in SkippedStatuses THEN <<>>
      ELSE IF intro.nextFollowupDate # Null /\ StrLt(intro.nextFollowupDate, today)
        THEN <<Task("overdue_followup", "high", intro, "was due")>>
      ELSE IF intro.nextFollowupDate = today
        THEN <<Task("due_today", "high", intro, "today")>>
      ELSE IF /\ founderHasTouched(intro)
              /\ intro.updatedAt # Null
              /\ StrGt(intro.updatedAt, fourteenDaysAgo)
        THEN <<>>
      ELSE IF founderHasTouched(intro)
        THEN <<Task("check_in", "medium", intro, "Check in")>>
      ELSE <<Task("needs_update", "high", intro, FounderMessage(intro.status))>>

\* GET /tasks of the founder portal
FounderTaskList(rows, founderId, t) ==
  LET mine == SelectSeq(rows, LAMBDA r : r.founderId = founderId)
  IN  SortTasks(Flatten([i \in 1..Len(mine) |-> FounderTasksFor(mine[i], t)]))

\* intro-requests.ts: the cutoff of the connector derivation,
\* '2025-05-01T00:00:00.000Z' (day 2 of the model's epoch)
may2025 == <<2, 0>>

ConnectorStatusTask(intro) ==
  CASE intro.status = "first_meeting_complete" ->
         Task(intro.status, "medium", intro, "How did the meeting go?")
    [] intro.status = "second_meeting_complete" ->
         Task(intro.status, "medium", intro, "any outcome yet?")
    [] intro.status = "follow_up_questions" ->
         Task(intro.status, "high", intro, "resolved?")
    [] intro.status = "circle_back_round_opens" ->
         Task(intro.status, "low", intro, "Time to reconnect")
    [] OTHER -> Task(intro.status, "medium", intro, "Check on")

\* the loop body with the status rules ahead of the touch rules
ConnectorTasksForStatusFirst(intro, t) ==
  LET threeDaysAgo == toISOString(t - ThreeDaysMs)
      fourteenDaysAgo == toISOString(t - FourteenDaysMs)
      introRealDate == OrElse(intro.dateRequested, intro.createdAt)
      introDate == OrElse(intro.dateIntroduced,
                          OrElse(intro.dateRequested, intro.createdAt))
  IN  IF StrLt(introRealDate, may2025) THEN <<>>
      ELSE IF intro.status \in SkippedStatuses THEN <<>>
      ELSE IF intro.status = "introduced" /\ StrLt(introDate, fourteenDaysAgo)
        THEN <<Task("check_meeting", "high", intro, "Did they meet?")>>
      ELSE IF /\ hasBeenUpdated(intro)
              /\ intro.updatedAt # Null
              /\ StrGt(intro.updatedAt, fourteenDaysAgo)
        THEN <<>>
      ELSE IF hasBeenUpdated(intro)
        THEN <<Task("check_in", "medium", intro, "Check in")>>
      ELSE IF intro.status = "introduced"
        THEN IF StrLt(introDate, threeDaysAgo)
               THEN <<Task("check_schedule", "medium", intro, "Did they schedule?")>>
             ELSE <<>>
      ELSE <<ConnectorStatusTask(intro)>>

\* one iteration of the loop of GET /tasks/node/:nodeId
ConnectorTasksFor(intro, t) ==
  LET threeDaysAgo == toISOString(t - ThreeDaysMs)
      fourteenDaysAgo == toISOString(t - FourteenDaysMs)
      introRealDate == OrElse(intro.dateRequested, intro.createdAt)
      introDate == OrElse(intro.dateIntroduced,
                          OrElse(intro.dateRequested, intro.createdAt))
  IN  IF StrLt(introRealDate, may2025) THEN <<>>
      ELSE IF intro.status \in SkippedStatuses THEN <<>>
      ELSE IF /\ hasBeenUpdated(intro)
              /\ intro.updatedAt # Null
              /\ StrGt(intro.updatedAt, fourteenDaysAgo)
        THEN <<>>
      ELSE IF hasBeenUpdated(intro)
        THEN <<Task("check_in", "medium", intro, "Check in")>>
      ELSE IF intro.status = "introduced"
        THEN IF StrLt(introDate, fourteenDaysAgo)
               THEN <<Task("check_meeting", "high", intro, "Did they meet?")>>
             ELSE IF StrLt(introDate, threeDaysAgo)
               THEN <<Task("check_schedule", "medium", intro, "Did they schedule?")>>
             ELSE <<>>
      ELSE <<ConnectorStatusTask(intro)>>

\* the founder ids of the groups, in the order Object.values lists the keys
\* of `grouped`: integer keys in ascending order
RECURSIVE AscendingIds(_)
AscendingIds(S) ==
  IF S = {} THEN <<>>
  ELSE LET m == CHOOSE x \in S : \A y \in S : x <= y
       IN  <<m>> \o AscendingIds(S \ {m})

\* .sort((a, b) => b.highPriorityCount - a.highPriorityCount)
SortGroups(groups) ==
  Items(SortBy([i \in 1..Len(groups) |->
                  [key |-> 0 - groups[i].highPriorityCount, item |-> groups[i]]]))

\* GET /tasks/node/:nodeId: derive, sort, group by founder, sort the groups
NodeTaskDigest(rows, nodeId, t) ==
  LET mine == SelectSeq(rows, LAMBDA r : r.nodeId = nodeId)
      tasks == SortTasks(Flatten([i \in 1..Len(mine) |-> ConnectorTasksFor(mine[i], t)]))
      ids == AscendingIds({tasks[i].founderId : i \in 1..Len(tasks)})
      group(f) ==
        LET ts == SelectSeq(tasks, LAMBDA x : x.founderId = f)
        IN  <<[founder |-> f, tasks |-> ts,
               highPriorityCount |->
                 Len(SelectSeq(ts, LAMBDA x : x.priority = "high"))]>>
  IN  SortGroups(Flatten([i \in 1..Len(ids) |-> group(ids[i])]))

----------------------------------------------------------------------------
(* Rows and responses *)

\* the columns of intro_requests the handlers read or write; a row as the
\* create routes insert it (the other columns take the schema's defaults)
NewIntro(id, founderId, nodeId, investorId, status, dateRequested, at) ==
  [id |-> id, founderId |-> founderId, nodeId |-> nodeId,
   investorId |-> investorId, status |-> status,
   dateRequested |-> dateRequested, dateNodeAsked |-> Null,
   dateIntroduced |-> Null, nextFollowupDate |-> Null,
   lastFollowupDate |-> Null, followupOwner |-> "founder",
   createdAt |-> at, updatedAt |-> at]

NoResponse == [sent |-> FALSE, body |-> <<>>]

Response(body) == [sent |-> TRUE, body |-> body]

\* the ids of the model's founders, nodes and investors
Founders == {1}
Nodes == {1}

\* GET /tasks for founder f
GetFounderTasks(f) ==
  /\ founderTasks' = Response(FounderTaskList(introRequests, f, now))
  /\ UNCHANGED <<storeVars, authVars, digestVars, now, introVars, nodeTasks, bulkVars>>

\* GET /tasks/node/:nodeId
GetNodeTasks(n) ==
  /\ nodeTasks' = Response(NodeTaskDigest(introRequests, n, now))
  /\ UNCHANGED <<storeVars, authVars, digestVars, now, introVars, founderTasks, bulkVars>>

----------------------------------------------------------------------------
(* The task derivations as functions of one stored row and the time of the  *)
(* request: every behaviour starts from one row and one clock reading.      *)

NowDay == 22

TaskNow == NowDay * MsPerDay + 60 * 60 * 1000

\* now - updatedAt
TouchAges ==
  {0, ThreeDaysMs, FourteenDaysMs - 1, FourteenDaysMs,
   (NowDay - 1) * MsPerDay - 60001}

\* updatedAt - createdAt
TouchDeltas == {0, 60000, 60001}

\* a calendar date as the create routes default it, an instant as POST /
\* accepts it, or null as the column allows and the derivations provide for
DateRequestedValues ==
  {Null, <<1>>, <<2>>, <<NowDay - 14>>, <<NowDay - 3>>,
   toISOString(TaskNow - FourteenDaysMs)}

DateIntroducedValues ==
  {Null} \cup {<<NowDay - k>> : k \in {2, 3, 5, 13, 14, 20}}
         \cup {toISOString(TaskNow - FourteenDaysMs)}

NextFollowupValues == {Null, <<NowDay - 1>>, <<NowDay>>, <<NowDay + 1>>}

IdleIntroHandlers ==
  /\ followupLogs = <<>>
  /\ createPc = <<>>
  /\ followupPc = <<>>

\* portfolio.ts: the initial value of bulkResearchStatus (current: the id of
\* the investor being researched, 0 for the empty string)
IdleBulkStatus ==
  [running |-> FALSE, total |-> 0, completed |-> 0, failed |-> 0,
   current |-> 0, startedAt |-> Null, completedAt |-> Null, results |-> <<>>]

\* no founder row is read and no digest or trend route has answered
IdleDigest ==
  /\ founders = <<>>
  /\ digest = [sent |-> FALSE, body |-> <<>>]
  /\ trends = [sent |-> FALSE, body |-> <<>>]

IdleBulk ==
  /\ bulkResearchStatus = IdleBulkStatus
  /\ investorResearch = <<>>
  /\ bulkPc = <<>>
  /\ bulkJobs = <<>>

\* every node of the model has its row, the ids given so far are those of
\* the stored introductions, and no DELETE route has answered
IdleStore ==
  /\ nodes = Nodes
  /\ introSeq = Len(introRequests)
  /\ deletion = NoResponse

\* auth.ts, admin-auth.ts: the maps a starting process creates, empty
IdleAuth ==
  /\ tokens = <<>>
  /\ sessions = <<>>
  /\ authLog = [links |-> 0, logins |-> <<>>,
                last |-> [route |-> "", realm |-> "", key |-> 0, code |-> 0]]

InitTasks ==
  /\ now = TaskNow
  /\ \E status \in introStatusValues, age \in TouchAges, delta \in TouchDeltas,
        dr \in DateRequestedValues, di \in DateIntroducedValues,
        nf \in NextFollowupValues :
       introRequests =
         <<[NewIntro(1, 1, 1, 1, status, dr, toISOString(now - age - delta))
              EXCEPT !.updatedAt = toISOString(now - age),
                     !.dateIntroduced = di,
                     !.nextFollowupDate = nf]>>
  /\ founderTasks = NoResponse
  /\ nodeTasks = NoResponse
  /\ IdleDigest
  /\ IdleIntroHandlers
  /\ IdleBulk
  /\ IdleStore
  /\ IdleAuth

NextTasks ==
  \/ \E f \in Founders : GetFounderTasks(f)
  \/ \E n \in Nodes : GetNodeTasks(n)

SpecTasks == InitTasks /\ [][NextTasks]_vars

----------------------------------------------------------------------------
(* Properties of the task derivations *)

\* founder-portal.ts, GET /nodes: the statuses counted as no longer active
TerminalStatuses == {"passed", "ignored", "invested", "not_a_fit"}

\* the statuses with a wording of their own in the switch of GET /tasks
PostIntroStatuses ==
  {"introduced", "first_meeting_complete", "second_meeting_complete",
   "follow_up_questions", "circle_back_round_opens"}

RowIds == {introRequests[k].id : k \in 1..Len(introRequests)}

RowOf(id) == introRequests[CHOOSE k \in 1..Len(introRequests) : introRequests[k].id = id]

Kinds(tasks) == [k \in 1..Len(tasks) |-> <<tasks[k].type, tasks[k].priority>>]

\* what the last founder response holds for row id: <<type, priority>> pairs
FounderKinds(id) ==
  Kinds(SelectSeq(founderTasks.body, LAMBDA t : t.intro = id))

\* what the last connector response holds for row id, over all its groups
NodeKinds(id) ==
  LET tasksOf(g) == SelectSeq(g.tasks, LAMBDA t : t.intro = id)
  IN  Kinds(Flatten([i \in 1..Len(nodeTasks.body) |-> tasksOf(nodeTasks.body[i])]))

Today == <<now \div MsPerDay>>

\* updatedAt - createdAt in milliseconds
TouchDelta(r) == getTime(r.updatedAt) - getTime(r.createdAt)

\* now - updatedAt in milliseconds
TouchAge(r) == now - getTime(r.updatedAt)

\* nextFollowupDate is a calendar date on or before today
FollowupDue(r) ==
  r.nextFollowupDate # Null /\ r.nextFollowupDate[1] <= Today[1]

\* the connector derivation passed the row on to its status and touch rules
PastCutoff(r) == ~StrLt(OrElse(r.dateRequested, r.createdAt), may2025)

\* C2: an introduction in a terminal status (passed, ignored, invested,
\* not_a_fit) has no task in the founder response and none in the connector
\* response, whatever its dates and timestamps are.
C2_TerminalNeverTasked ==
  \A id \in RowIds :
    RowOf(id).status \in TerminalStatuses =>
      /\ founderTasks.sent => FounderKinds(id) = <<>>
      /\ nodeTasks.sent => NodeKinds(id) = <<>>

\* a terminal row whose follow-up date is overdue, past the cutoff, after
\* both derivations ran
C2_Witness ==
  /\ founderTasks.sent /\ nodeTasks.sent
  /\ \E id \in RowIds :
       /\ RowOf(id).status = "invested"
       /\ RowOf(id).nextFollowupDate # Null
       /\ StrLt(RowOf(id).nextFollowupDate, Today)
       /\ PastCutoff(RowOf(id))
       /\ TouchDelta(RowOf(id)) = 0

\* C4: acted-on is exactly updatedAt - createdAt > 60000 ms, in both
\* derivations.  A row that reaches the touch rules gets the never-touched
\* outcome (needs_update for the founder, the status task for the connector)
\* exactly when the delta is at most 60000, and the acted-on outcome (no task
\* or check_in) exactly when it is 60001 or more.
C4_ActedOnBoundary ==
  \A id \in RowIds :
    LET r == RowOf(id) IN
      /\ (founderTasks.sent /\ r.status \notin SkippedStatuses /\ ~FollowupDue(r)) =>
           /\ TouchDelta(r) <= 60000 <=> FounderKinds(id) = <<(<<"needs_update", "high">>)>>
           /\ TouchDelta(r) >= 60001 <=>
                FounderKinds(id) \in {<<>>, <<(<<"check_in", "medium">>)>>}
      /\ (nodeTasks.sent /\ PastCutoff(r)
            /\ r.status \notin SkippedStatuses \cup {"introduced"}) =>
           /\ TouchDelta(r) <= 60000 <=>
                (Len(NodeKinds(id)) = 1 /\ NodeKinds(id)[1][1] = r.status)
           /\ TouchDelta(r) >= 60001 <=>
                NodeKinds(id) \in {<<>>, <<(<<"check_in", "medium">>)>>}

\* a row written exactly 60000 ms after its creation, derived for both roles
C4_Witness ==
  /\ founderTasks.sent /\ nodeTasks.sent
  /\ \E id \in RowIds :
       /\ TouchDelta(RowOf(id)) = 60000
       /\ RowOf(id).status = "first_meeting_complete"
       /\ FounderKinds(id) = <<(<<"needs_update", "high">>)>>
       /\ NodeKinds(id) = <<(<<"first_meeting_complete", "medium">>)>>

\* C5: founder role, status neither terminal nor intro_request_sent: a
\* nextFollowupDate before today gives the single task overdue_followup/high,
\* one equal to today gives the single task due_today/high, whether or not
\* the row was acted on recently.
C5_ExplicitDatesFirst ==
  \A id \in RowIds :
    LET r == RowOf(id) IN
      (founderTasks.sent /\ r.status \notin SkippedStatuses
         /\ r.nextFollowupDate # Null) =>
        /\ StrLt(r.nextFollowupDate, Today) =>
             FounderKinds(id) = <<(<<"overdue_followup", "high">>)>>
        /\ r.nextFollowupDate = Today =>
             FounderKinds(id) = <<(<<"due_today", "high">>)>>

\* an overdue row that was acted on and touched within the last 14 days
C5_Witness ==
  /\ founderTasks.sent
  /\ \E id \in RowIds :
       /\ RowOf(id).status = "introduced"
       /\ TouchDelta(RowOf(id)) > 60000
       /\ TouchAge(RowOf(id)) < FourteenDaysMs
       /\ StrLt(RowOf(id).nextFollowupDate, Today)
       /\ RowOf(id).nextFollowupDate # Null
       /\ FounderKinds(id) = <<(<<"overdue_followup", "high">>)>>

\* C6: both roles, a row that is not skipped (for the founder: with no
\* nextFollowupDate on or before today): acted on and touched less than 14
\* days ago gives no task; acted on and touched 14 days ago or earlier gives
\* exactly check_in/medium.  For the connector this comes before the status
\* rules.
C6_SuppressThenCheckIn ==
  \A id \in RowIds :
    LET r == RowOf(id) IN
      TouchDelta(r) > 60000 =>
        /\ (founderTasks.sent /\ r.status \notin SkippedStatuses /\ ~FollowupDue(r)) =>
             FounderKinds(id) =
               IF TouchAge(r) < FourteenDaysMs THEN <<>>
               ELSE <<(<<"check_in", "medium">>)>>
        /\ (nodeTasks.sent /\ r.status \notin SkippedStatuses /\ PastCutoff(r)) =>
             NodeKinds(id) =
               IF TouchAge(r) < FourteenDaysMs THEN <<>>
               ELSE <<(<<"check_in", "medium">>)>>

\* an acted-on introduced row touched exactly 14 days ago, introduced long
\* enough ago for check_meeting, yet check_in for both roles
C6_Witness ==
  /\ founderTasks.sent /\ nodeTasks.sent
  /\ \E id \in RowIds :
       /\ RowOf(id).status = "introduced"
       /\ TouchDelta(RowOf(id)) = 60001
       /\ TouchAge(RowOf(id)) = FourteenDaysMs
       /\ RowOf(id).dateIntroduced = <<NowDay - 20>>
       /\ FounderKinds(id) = <<(<<"check_in", "medium">>)>>
       /\ NodeKinds(id) = <<(<<"check_in", "medium">>)>>

\* C7: founder role, a post-introduction non-terminal status, never acted on,
\* nextFollowupDate unset or after today: exactly one task, needs_update/high,
\* from the moment the row exists.
C7_NeedsUpdateAtOnce ==
  \A id \in RowIds :
    LET r == RowOf(id) IN
      (founderTasks.sent /\ r.status \in PostIntroStatuses
         /\ TouchDelta(r) <= 60000
         /\ (r.nextFollowupDate = Null \/ StrGt(r.nextFollowupDate, Today))) =>
        FounderKinds(id) = <<(<<"needs_update", "high">>)>>

\* a row created and last written at the very instant of the request
C7_Witness ==
  /\ founderTasks.sent
  /\ \E id \in RowIds :
       /\ RowOf(id).status = "follow_up_questions"
       /\ RowOf(id).createdAt = toISOString(now)
       /\ RowOf(id).updatedAt = toISOString(now)
       /\ RowOf(id).nextFollowupDate = Null
       /\ FounderKinds(id) = <<(<<"needs_update", "high">>)>>

\* the effective introduction date and its age in milliseconds
EffectiveIntroDate(r) ==
  OrElse(r.dateIntroduced, OrElse(r.dateRequested, r.createdAt))

IntroAge(r) == now - getTime(EffectiveIntroDate(r))

\* C9: connector role, status introduced, never acted on, past the cutoff:
\* age of the effective introduction date >= 14 days gives check_meeting/high,
\* age in [3, 14) days gives check_schedule/medium, age < 3 days gives no task.
C9_IntroducedByAge ==
  \A id \in RowIds :
    LET r == RowOf(id) IN
      (nodeTasks.sent /\ r.status = "introduced" /\ TouchDelta(r) <= 60000
         /\ PastCutoff(r)) =>
        NodeKinds(id) =
          IF IntroAge(r) >= FourteenDaysMs THEN <<(<<"check_meeting", "high">>)>>
          ELSE IF IntroAge(r) >= ThreeDaysMs THEN <<(<<"check_schedule", "medium">>)>>
          ELSE <<>>

\* the calendar day of the effective start date and of the cutoff
EffectiveStartDay(r) == OrElse(r.dateRequested, r.createdAt)[1]

\* C10: the connector derivation excludes a row on cutoff grounds exactly
\* when its effective start date (dateRequested, else createdAt) is a day
\* before the cutoff date; a row dated on the cutoff date or later is kept,
\* in either string format.  (Rows in a status with a task of its own and
\* never acted on: kept means tasked.)
C10_CutoffExact ==
  \A id \in RowIds :
    LET r == RowOf(id) IN
      (nodeTasks.sent /\ TouchDelta(r) <= 60000
         /\ r.status \in PostIntroStatuses \ {"introduced"}) =>
        (NodeKinds(id) = <<>> <=> EffectiveStartDay(r) < may2025[1])

----------------------------------------------------------------------------
(* Bulk investor research (portfolio.ts).  A handler runs from one await to  *)
(* the next without interruption; between awaits other handlers and the     *)
(* background loops take their turns.                                       *)

NumInvestors == 1

MaxBulkRequests == 2

\* table investors (ids)
Investors == 1..NumInvestors

BulkRequests == 1..MaxBulkRequests

\* the investor ids of a set, in table order
RECURSIVE InIdOrder(_)
InIdOrder(S) ==
  IF S = {} THEN <<>>
  ELSE LET m == CHOOSE x \in S : \A y \in S : x <= y
       IN  <<m>> \o InIdOrder(S \ {m})

\* POST /bulk-research up to its first await: the test of the running flag,
\* then the select of all investors is issued
BulkCheckRunning(h) ==
  /\ bulkPc[h].pc = "idle"
  /\ bulkPc' = [bulkPc EXCEPT ![h] =
       IF bulkResearchStatus.running
         THEN [pc |-> "done", code |-> 409, researched |-> {}]
         ELSE [pc |-> "selectInvestors", code |-> 0, researched |-> {}]]
  /\ UNCHANGED <<storeVars, authVars, digestVars, now, introVars, taskVars, bulkResearchStatus, investorResearch,
                 bulkJobs>>

\* ... resumed with allInvestors; the select of the completed research runs
BulkSelectCompleted(h) ==
  /\ bulkPc[h].pc = "selectInvestors"
  /\ bulkPc' = [bulkPc EXCEPT ![h] =
       [pc |-> "selectResearch", code |-> 0,
        researched |-> {investorResearch[k].investorId :
                          k \in {x \in 1..Len(investorResearch) :
                                   investorResearch[x].status = "completed"}}]]
  /\ UNCHANGED <<storeVars, authVars, digestVars, now, introVars, taskVars, bulkResearchStatus, investorResearch,
                 bulkJobs>>

\* ... resumed with completedResearch: nothing to do (200), or reset the
\* status with running = true, start the background loop (which runs up to
\* its first await) and answer 202
BulkStartJob(h) ==
  /\ bulkPc[h].pc = "selectResearch"
  /\ LET needsResearch == InIdOrder(Investors \ bulkPc[h].researched)
         job == [todo |-> needsResearch, pc |-> "start", researchId |-> 0]
     IN  IF needsResearch = <<>>
           THEN /\ bulkPc' = [bulkPc EXCEPT ![h] = [@ EXCEPT !.pc = "done", !.code = 200]]
                /\ UNCHANGED <<bulkResearchStatus, investorResearch, bulkJobs>>
           ELSE /\ bulkPc' = [bulkPc EXCEPT ![h] = [@ EXCEPT !.pc = "done", !.code = 202]]
                /\ bulkResearchStatus' =
                     [running |-> TRUE, total |-> Len(needsResearch),
                      completed |-> 0, failed |-> 0,
                      current |-> Head(needsResearch),
                      startedAt |-> toISOString(now), completedAt |-> Null,
                      results |-> <<>>]
                /\ investorResearch' =
                     Append(investorResearch,
                            [id |-> Len(investorResearch) + 1,
                             investorId |-> Head(needsResearch),
                             status |-> "pending"])
                /\ bulkJobs' = Append(bulkJobs,
                     [job EXCEPT !.pc = "perform",
                                 !.researchId = Len(investorResearch) + 1])
  /\ UNCHANGED <<storeVars, authVars, digestVars, now, introVars, taskVars>>

\* performInvestorResearch: the record ends completed or failed
JobPerform(j, outcome) ==
  /\ bulkJobs[j].pc = "perform"
  /\ investorResearch' =
       [investorResearch EXCEPT ![bulkJobs[j].researchId].status = outcome]
  /\ bulkJobs' = [bulkJobs EXCEPT ![j].pc = "record"]
  /\ UNCHANGED <<storeVars, authVars, digestVars, now, introVars, taskVars, bulkResearchStatus, bulkPc>>

\* a failed research ends the loop, the running flag left set
JobRecordStopsOnFailure(j) ==
  /\ bulkJobs[j].pc = "record"
  /\ LET inv == Head(bulkJobs[j].todo)
         ok == investorResearch[bulkJobs[j].researchId].status = "completed"
     IN  /\ bulkResearchStatus' =
              IF ok
                THEN [bulkResearchStatus EXCEPT
                        !.completed = @ + 1,
                        !.results = Append(@, [investorId |-> inv, status |-> "success"])]
                ELSE [bulkResearchStatus EXCEPT
                        !.failed = @ + 1,
                        !.results = Append(@, [investorId |-> inv, status |-> "failed"])]
         /\ bulkJobs' = [bulkJobs EXCEPT ![j] =
              IF ok THEN [@ EXCEPT !.pc = "delay"]
              ELSE [todo |-> <<>>, pc |-> "finished", researchId |-> 0]]
  /\ UNCHANGED <<storeVars, authVars, digestVars, now, introVars, taskVars, investorResearch, bulkPc>>

\* getResearchById, then count the outcome and push it to results; the loop
\* then waits one second
JobRecord(j) ==
  /\ bulkJobs[j].pc = "record"
  /\ LET inv == Head(bulkJobs[j].todo)
         ok == investorResearch[bulkJobs[j].researchId].status = "completed"
     IN  bulkResearchStatus' =
           IF ok
             THEN [bulkResearchStatus EXCEPT
                     !.completed = @ + 1,
                     !.results = Append(@, [investorId |-> inv, status |-> "success"])]
             ELSE [bulkResearchStatus EXCEPT
                     !.failed = @ + 1,
                     !.results = Append(@, [investorId |-> inv, status |-> "failed"])]
  /\ bulkJobs' = [bulkJobs EXCEPT ![j].pc = "delay"]
  /\ UNCHANGED <<storeVars, authVars, digestVars, now, introVars, taskVars, investorResearch, bulkPc>>

\* the timer fires: the next iteration starts, or the loop is over and the
\* job clears the running flag
JobNext(j) ==
  /\ bulkJobs[j].pc = "delay"
  /\ LET rest == Tail(bulkJobs[j].todo)
     IN  IF rest # <<>>
           THEN /\ bulkResearchStatus' = [bulkResearchStatus EXCEPT !.current = Head(rest)]
                /\ investorResearch' =
                     Append(investorResearch,
                            [id |-> Len(investorResearch) + 1,
                             investorId |-> Head(rest), status |-> "pending"])
                /\ bulkJobs' = [bulkJobs EXCEPT ![j] =
                     [todo |-> rest, pc |-> "perform",
                      researchId |-> Len(investorResearch) + 1]]
           ELSE /\ bulkResearchStatus' =
                     [bulkResearchStatus EXCEPT !.running = FALSE, !.current = 0,
                                                !.completedAt = toISOString(now)]
                /\ bulkJobs' = [bulkJobs EXCEPT ![j] =
                     [todo |-> <<>>, pc |-> "finished", researchId |-> 0]]
                /\ UNCHANGED investorResearch
  /\ UNCHANGED <<storeVars, authVars, digestVars, now, introVars, taskVars, bulkPc>>

InitBulk ==
  /\ now = 0
  /\ introRequests = <<>>
  /\ founderTasks = NoResponse
  /\ nodeTasks = NoResponse
  /\ IdleDigest
  /\ IdleIntroHandlers
  /\ bulkResearchStatus = IdleBulkStatus
  /\ investorResearch = <<>>
  /\ bulkPc = [h \in BulkRequests |-> [pc |-> "idle", code |-> 0, researched |-> {}]]
  /\ bulkJobs = <<>>
  /\ IdleStore
  /\ IdleAuth

NextBulk ==
  \/ \E h \in BulkRequests : BulkCheckRunning(h)
  \/ \E h \in BulkRequests : BulkSelectCompleted(h)
  \/ \E h \in BulkRequests : BulkStartJob(h)
  \/ \E j \in DOMAIN bulkJobs, o \in {"completed", "failed"} : JobPerform(j, o)
  \/ \E j \in DOMAIN bulkJobs : JobRecord(j)
  \/ \E j \in DOMAIN bulkJobs : JobNext(j)

SpecBulk == InitBulk /\ [][NextBulk]_vars

\* the background loops that have not run to their end
ActiveJobs == {j \in DOMAIN bulkJobs : bulkJobs[j].pc # "finished"}

\* C1: at most one bulk research job runs at any time: of two requests
\* handled concurrently at most one starts a background loop, and a request
\* that arrives while a loop is active is answered 409.
C1_AtMostOneJob == Cardinality(ActiveJobs) <= 1

----------------------------------------------------------------------------
(* Writers of intro_requests.  The relationship and connection tables are   *)
(* constant and hold every (founder, node) and (node, investor) pair, so the *)
(* two validations of the create routes pass.                               *)

MaxCreateRequests == 2

CreateRequests == 1..MaxCreateRequests

IdleCreate == [pc |-> "idle", code |-> 0, founderId |-> 0, investorId |-> 0,
               status |-> "", dateRequested |-> Null, existing |-> FALSE]

\* findFirst: a row of the pair whose status is in the route's active list
ExistingActive(rows, f, i) ==
  \E k \in 1..Len(rows) :
     /\ rows[k].founderId = f
     /\ rows[k].investorId = i
     /\ rows[k].status \in ActiveForCreate

\* POST / (admin) up to the answer of its existing-request query; status and
\* dateRequested are the optional body fields ("" and Null: absent).  The
\* relationship and connection rows of node 1 exist as long as the node does
\* (DELETE /api/nodes/:id removes them): without them the route answers 400.
AdminCreateCheck(h, f, i, status, dr) ==
  /\ createPc[h].pc = "idle"
  /\ createPc' = [createPc EXCEPT ![h] =
       [pc |-> IF 1 \in nodes THEN "checked" ELSE "done",
        code |-> IF 1 \in nodes THEN 0 ELSE 400, founderId |-> f, investorId |-> i,
        status |-> IF status # "" THEN status ELSE "intro_request_sent",
        dateRequested |-> OrElse(dr, DatePart(toISOString(now))),
        existing |-> ExistingActive(introRequests, f, i)]]
  /\ UNCHANGED <<storeVars, authVars, digestVars, now, introRequests, followupLogs, followupPc, taskVars, bulkVars>>

\* POST /request-intro (founder portal) up to the answer of the same query
FounderRequestCheck(h, f, i) ==
  /\ createPc[h].pc = "idle"
  /\ createPc' = [createPc EXCEPT ![h] =
       [pc |-> IF 1 \in nodes THEN "checked" ELSE "done",
        code |-> IF 1 \in nodes THEN 0 ELSE 400, founderId |-> f, investorId |-> i,
        status |-> "intro_request_sent",
        dateRequested |-> DatePart(toISOString(now)),
        existing |-> ExistingActive(introRequests, f, i)]]
  /\ UNCHANGED <<storeVars, authVars, digestVars, now, introRequests, followupLogs, followupPc, taskVars, bulkVars>>

\* both create routes, resumed: 400 when a row was found, else the insert,
\* which the foreign key on node_id refuses (500) when the node is gone
CreateInsert(h) ==
  /\ createPc[h].pc = "checked"
  /\ IF 1 \notin nodes
       THEN /\ createPc' = [createPc EXCEPT ![h] = [@ EXCEPT !.pc = "done", !.code = 500]]
            /\ UNCHANGED <<introRequests, introSeq>>
     ELSE IF createPc[h].existing
       THEN /\ createPc' = [createPc EXCEPT ![h] = [@ EXCEPT !.pc = "done", !.code = 400]]
            /\ UNCHANGED <<introRequests, introSeq>>
       ELSE /\ createPc' = [createPc EXCEPT ![h] = [@ EXCEPT !.pc = "done", !.code = 201]]
            /\ introSeq' = introSeq + 1
            /\ introRequests' =
                 Append(introRequests,
                        NewIntro(introSeq + 1, createPc[h].founderId, 1,
                                 createPc[h].investorId, createPc[h].status,
                                 createPc[h].dateRequested, toISOString(now)))
  /\ UNCHANGED <<nodes, deletion, authVars, digestVars, now, followupLogs, followupPc,
               taskVars, bulkVars>>

\* db.update(...).set({...patch, updatedAt: at}) on one row
Patched(row, patch, at) ==
  [c \in DOMAIN row |->
     IF c = "updatedAt" THEN at
     ELSE IF c \in DOMAIN patch THEN patch[c] ELSE row[c]]

UpdateWhereId(rows, id, patch, at) ==
  [k \in 1..Len(rows) |->
     IF rows[k].id = id THEN Patched(rows[k], patch, at) ELSE rows[k]]

\* PUT /:id (admin): one update statement; 404 and no change without the row
AdminPut(id, patch) ==
  /\ introRequests' = UpdateWhereId(introRequests, id, patch, toISOString(now))
  /\ UNCHANGED <<storeVars, authVars, digestVars, now, followupLogs, createPc, followupPc, taskVars, bulkVars>>

\* PUT /my-intros/:id (founder portal): the ownership query, then the update
FounderPut(f, id, patch) ==
  /\ \E k \in 1..Len(introRequests) :
        introRequests[k].id = id /\ introRequests[k].founderId = f
  /\ introRequests' = UpdateWhereId(introRequests, id, patch, toISOString(now))
  /\ UNCHANGED <<storeVars, authVars, digestVars, now, followupLogs, createPc, followupPc, taskVars, bulkVars>>

----------------------------------------------------------------------------
(* Creating and updating introductions of one founder and one investor, at  *)
(* one reading of the clock.                                                *)

CreateStatusInputs == {"", "introduced"}

StatusPatches(S) == {[status |-> st] : st \in S}

InitIntro ==
  /\ now = TaskNow
  /\ introRequests = <<>>
  /\ followupLogs = <<>>
  /\ createPc = [h \in CreateRequests |-> IdleCreate]
  /\ followupPc = <<>>
  /\ founderTasks = NoResponse
  /\ nodeTasks = NoResponse
  /\ IdleDigest
  /\ IdleBulk
  /\ IdleStore
  /\ IdleAuth

NextIntro ==
  \/ \E h \in CreateRequests, st \in CreateStatusInputs :
        AdminCreateCheck(h, 1, 1, st, Null)
  \/ \E h \in CreateRequests : FounderRequestCheck(h, 1, 1)
  \/ \E h \in CreateRequests : CreateInsert(h)
  \/ \E id \in RowIds, p \in StatusPatches(introStatusValues) : AdminPut(id, p)
  \/ \E id \in RowIds, p \in StatusPatches(FounderSettableStatuses) :
        FounderPut(1, id, p)

SpecIntro == InitIntro /\ [][NextIntro]_vars

\* the rows of one (founder, investor) pair that are in no terminal status
NonTerminalRows(f, i) ==
  {k \in 1..Len(introRequests) :
     /\ introRequests[k].founderId = f
     /\ introRequests[k].investorId = i
     /\ introRequests[k].status \notin TerminalStatuses}

\* C3: after any sequence of create and update operations, each (founder,
\* investor) pair has at most one introduction in a non-terminal status.
C3_OneActivePerPair ==
  \A k \in 1..Len(introRequests) :
    Cardinality(NonTerminalRows(introRequests[k].founderId,
                                introRequests[k].investorId)) <= 1

----------------------------------------------------------------------------
(* Follow-up logs *)

MaxFollowupRequests == 1

FollowupRequests == 1..MaxFollowupRequests

IdleFollowup == [pc |-> "idle", code |-> 0, introId |-> 0, at |-> Null]

\* POST /my-intros/:id/followup up to the end of its insert: 404 without a
\* row of this founder, else the log is inserted with completedAt = now
FounderFollowupInsert(h, f, id, type) ==
  /\ followupPc[h].pc = "idle"
  /\ IF \E k \in 1..Len(introRequests) :
          introRequests[k].id = id /\ introRequests[k].founderId = f
       THEN /\ followupLogs' =
                 Append(followupLogs,
                        [id |-> Len(followupLogs) + 1, introRequestId |-> id,
                         followupType |-> type, completedBy |-> "founder",
                         completedAt |-> toISOString(now)])
            /\ followupPc' = [followupPc EXCEPT ![h] =
                 [pc |-> "inserted", code |-> 0, introId |-> id,
                  at |-> toISOString(now)]]
       ELSE /\ followupPc' = [followupPc EXCEPT ![h] =
                 [pc |-> "done", code |-> 404, introId |-> id, at |-> Null]]
            /\ UNCHANGED followupLogs
  /\ UNCHANGED <<storeVars, authVars, digestVars, now, introRequests, createPc, taskVars, bulkVars>>

\* the second write with lastFollowupDate alone, updatedAt left as it was
FollowupUpdateParentKeepsUpdatedAt(h) ==
  /\ followupPc[h].pc = "inserted"
  /\ introRequests' =
       [k \in 1..Len(introRequests) |->
          IF introRequests[k].id = followupPc[h].introId
            THEN [introRequests[k] EXCEPT
                    !.lastFollowupDate = DatePart(followupPc[h].at)]
            ELSE introRequests[k]]
  /\ followupPc' = [followupPc EXCEPT ![h] = [@ EXCEPT !.pc = "done", !.code = 201]]
  /\ UNCHANGED <<storeVars, authVars, digestVars, now, followupLogs, createPc, taskVars, bulkVars>>

\* the second write stamped with the clock read again at the update
FollowupUpdateParentAtClock(h) ==
  /\ followupPc[h].pc = "inserted"
  /\ introRequests' =
       UpdateWhereId(introRequests, followupPc[h].introId,
                     [lastFollowupDate |-> DatePart(toISOString(now))],
                     toISOString(now))
  /\ followupPc' = [followupPc EXCEPT ![h] = [@ EXCEPT !.pc = "done", !.code = 201]]
  /\ UNCHANGED <<storeVars, authVars, digestVars, now, followupLogs, createPc, taskVars, bulkVars>>

\* ... resumed: the parent row gets lastFollowupDate and updatedAt from the
\* `now` the handler took before the insert
FollowupUpdateParent(h) ==
  /\ followupPc[h].pc = "inserted"
  /\ introRequests' =
       UpdateWhereId(introRequests, followupPc[h].introId,
                     [lastFollowupDate |-> DatePart(followupPc[h].at)],
                     followupPc[h].at)
  /\ followupPc' = [followupPc EXCEPT ![h] = [@ EXCEPT !.pc = "done", !.code = 201]]
  /\ UNCHANGED <<storeVars, authVars, digestVars, now, followupLogs, createPc, taskVars, bulkVars>>

----------------------------------------------------------------------------
(* One introduction over time: requested by the founder at the epoch, then  *)
(* updated by the admin and the founder while the clock advances.           *)

MaxDay == 14

ClockDays == {0, MaxDay}

ClockMs == {0, 60001}

ClockPoints == {d * MsPerDay + m : d \in ClockDays, m \in ClockMs}

\* the statuses the founder sets here: one that keeps the introduction
\* active and one that ends it
FounderStatusInputs == {"first_meeting_complete", "invested"}

\* time passes
Tick(t) ==
  /\ t > now
  /\ now' = t
  /\ UNCHANGED <<storeVars, authVars, digestVars, introVars, taskVars, bulkVars>>

Init ==
  /\ now = 0
  /\ introRequests =
       <<NewIntro(1, 1, 1, 1, "intro_request_sent", DatePart(toISOString(0)),
                  toISOString(0))>>
  /\ followupLogs = <<>>
  /\ createPc = <<>>
  /\ followupPc = [h \in FollowupRequests |-> IdleFollowup]
  /\ founderTasks = NoResponse
  /\ nodeTasks = NoResponse
  /\ IdleDigest
  /\ IdleBulk
  /\ IdleStore
  /\ IdleAuth

Next ==
  \/ \E t \in ClockPoints : Tick(t)
  \/ AdminPut(1, [status |-> "introduced", dateIntroduced |-> Today])
  \/ \E p \in StatusPatches(FounderStatusInputs) : FounderPut(1, 1, p)
  \/ FounderPut(1, 1, [nextFollowupDate |-> <<MaxDay>>])
  \/ FounderPut(1, 1, [notes |-> "note"])
  \/ \E h \in FollowupRequests : FounderFollowupInsert(h, 1, 1, "meeting_update")
  \/ \E h \in FollowupRequests : FollowupUpdateParent(h)
  \/ GetFounderTasks(1)

Spec == Init /\ [][Next]_vars

\* what GET /tasks would answer now for row id
KindsNow(id) ==
  Kinds(SelectSeq(FounderTaskList(introRequests, RowOf(id).founderId, now),
                  LAMBDA t : t.intro = id))

\* the timestamp the write of this step carries: the follow-up handler's own
\* `now` when the step is its second write, else the clock
WriteStamp ==
  IF \E h \in DOMAIN followupPc : followupPc[h].pc = "inserted" /\ followupPc'[h].pc = "done"
    THEN followupPc[CHOOSE h \in DOMAIN followupPc :
                      followupPc[h].pc = "inserted" /\ followupPc'[h].pc = "done"].at
    ELSE toISOString(now)

\* C8 as stated: once a founder write has left updatedAt more than 60 s after
\* createdAt, and with no nextFollowupDate on or before today, the founder
\* list has no task for the introduction for 14 days and check_in from then on.
C8_AsClaimed ==
  \A id \in RowIds :
    LET r == RowOf(id) IN
      (TouchDelta(r) > 60000 /\ ~FollowupDue(r)) =>
        KindsNow(id) = IF TouchAge(r) < FourteenDaysMs THEN <<>>
                       ELSE <<(<<"check_in", "medium">>)>>

C8_Suppressed ==
  \A id \in RowIds :
    LET r == RowOf(id) IN
      (TouchDelta(r) > 60000 /\ ~FollowupDue(r) /\ TouchAge(r) < FourteenDaysMs) =>
        KindsNow(id) = <<>>

C8_Resurfaced ==
  \A id \in RowIds :
    LET r == RowOf(id) IN
      (TouchDelta(r) > 60000 /\ ~FollowupDue(r) /\ TouchAge(r) >= FourteenDaysMs
         /\ r.status \notin SkippedStatuses) =>
        KindsNow(id) = <<(<<"check_in", "medium">>)>>

\* a write stamped more than 60 s after creation and less than 14 days ago
\* leaves the introduction without a task
C8_AfterWrite ==
  \A id \in RowIds :
    (/\ RowOf(id)' # RowOf(id)
     /\ getTime(WriteStamp) - getTime(RowOf(id).createdAt) > 60000
     /\ now - getTime(WriteStamp) < FourteenDaysMs
     /\ ~FollowupDue(RowOf(id))') =>
      KindsNow(id)' = <<>>

\* check_in stays while the row is not written and no follow-up date is due
C8_Stays ==
  \A id \in RowIds :
    (/\ KindsNow(id) = <<(<<"check_in", "medium">>)>>
     /\ introRequests' = introRequests
     /\ ~FollowupDue(RowOf(id))') =>
      KindsNow(id)' = <<(<<"check_in", "medium">>)>>

\* C8 (amended): suppress-then-resurface.  Once a founder's update or
\* follow-up log has stamped updatedAt more than 60 s after createdAt, and
\* while no nextFollowupDate on or before today is set, the founder list has
\* no task for the introduction while updatedAt is less than 14 days old;
\* once it is 14 days old and the status is neither terminal nor
\* intro_request_sent, check_in appears and stays until the row is written.
C8_SuppressThenResurface ==
  /\ [](C8_Suppressed /\ C8_Resurfaced)
  /\ [][C8_AfterWrite /\ C8_Stays]_vars

\* the founder logged a follow-up 60001 ms after creation; 14 days after it
\* GET /tasks answers check_in for the introduction
C8_Witness ==
  /\ followupLogs # <<>>
  /\ \E h \in DOMAIN followupPc : followupPc[h].pc = "done" /\ followupPc[h].code = 201
  /\ founderTasks.sent
  /\ founderTasks.body = FounderTaskList(introRequests, 1, now)
  /\ \E id \in RowIds :
       /\ RowOf(id).updatedAt = followupLogs[Len(followupLogs)].completedAt
       /\ TouchDelta(RowOf(id)) = 60001
       /\ TouchAge(RowOf(id)) >= FourteenDaysMs
       /\ FounderKinds(id) = <<(<<"check_in", "medium">>)>>

----------------------------------------------------------------------------
(* Several introductions of several founders behind one connector: the     *)
(* order of the produced lists.  Row ids are the positions in the order the *)
(* queries return the rows.                                                 *)

MaxIntros == 3

NumFounders == 2

OrderFounders == 1..NumFounders

\* a status and whether the row was touched 14 days ago: together they give
\* high, medium, low and both kinds of medium task
OrderProfiles ==
  {[status |-> "follow_up_questions", touched |-> FALSE],
   [status |-> "first_meeting_complete", touched |-> FALSE],
   [status |-> "circle_back_round_opens", touched |-> FALSE],
   [status |-> "first_meeting_complete", touched |-> TRUE]}

OrderRow(id, f, p) ==
  [NewIntro(id, f, 1, id, p.status, Null,
            toISOString(TaskNow - FourteenDaysMs - 60001))
     EXCEPT !.updatedAt = IF p.touched THEN toISOString(TaskNow - FourteenDaysMs)
                          ELSE @]

InitOrder ==
  /\ now = TaskNow
  /\ \E n \in 1..MaxIntros :
       \E fs \in [1..n -> OrderFounders], ps \in [1..n -> OrderProfiles] :
         introRequests = [k \in 1..n |-> OrderRow(k, fs[k], ps[k])]
  /\ founderTasks = NoResponse
  /\ nodeTasks = NoResponse
  /\ IdleDigest
  /\ IdleIntroHandlers
  /\ IdleBulk
  /\ IdleStore
  /\ IdleAuth

NextOrder ==
  \/ \E f \in OrderFounders : GetFounderTasks(f)
  \/ GetNodeTasks(1)

SpecOrder == InitOrder /\ [][NextOrder]_vars

\* high before medium before low, equal priorities in input order
PriorityStable(tasks) ==
  \A i, j \in 1..Len(tasks) :
    i < j =>
      \/ priorityOrder(tasks[i].priority) < priorityOrder(tasks[j].priority)
      \/ /\ tasks[i].priority = tasks[j].priority
         /\ tasks[i].intro < tasks[j].intro

\* C11: every produced task list, the founder's and the one inside each
\* group of the connector digest, has all high tasks before all medium before
\* all low, and tasks of equal priority in the order of their introductions
\* in the input.
C11_StablePriorityOrder ==
  /\ founderTasks.sent => PriorityStable(founderTasks.body)
  /\ nodeTasks.sent =>
       \A g \in 1..Len(nodeTasks.body) : PriorityStable(nodeTasks.body[g].tasks)

\* a founder list and a group that each hold two tasks of one priority and a
\* higher-priority task derived from a later row
C11_Witness ==
  /\ founderTasks.sent
  /\ nodeTasks.sent
  /\ \E i, j, k \in 1..Len(founderTasks.body) :
       /\ i < j /\ j < k
       /\ founderTasks.body[i].priority = "high"
       /\ founderTasks.body[j].priority = "high"
       /\ founderTasks.body[k].priority = "medium"
       /\ founderTasks.body[k].intro < founderTasks.body[j].intro
  /\ \E g \in 1..Len(nodeTasks.body) :
       LET ts == nodeTasks.body[g].tasks IN
         /\ Len(ts) = 3
         /\ ts[1].priority = "medium" /\ ts[2].priority = "medium"
         /\ ts[3].priority = "low"
         /\ ts[3].intro < ts[2].intro

\* the tasks of the connector digest in the order the grouping loop meets them
DerivedNodeTasks ==
  SortTasks(Flatten([i \in 1..Len(introRequests) |->
                       ConnectorTasksFor(introRequests[i], now)]))

FirstEncounter(f) ==
  CHOOSE i \in 1..Len(DerivedNodeTasks) :
    /\ DerivedNodeTasks[i].founderId = f
    /\ \A j \in 1..(i - 1) : DerivedNodeTasks[j].founderId # f

\* C12: the connector digest has one group per founder, highPriorityCount is
\* the number of the group's high tasks, groups come in descending
\* highPriorityCount, and groups with equal counts in the order their
\* founders were first encountered among the derived tasks.
C12_GroupOrder ==
  nodeTasks.sent =>
    LET gs == nodeTasks.body IN
      /\ \A g, h \in 1..Len(gs) : g # h => gs[g].founder # gs[h].founder
      /\ \A g \in 1..Len(gs) :
           /\ \A k \in 1..Len(gs[g].tasks) : gs[g].tasks[k].founderId = gs[g].founder
           /\ gs[g].highPriorityCount =
                Cardinality({k \in 1..Len(gs[g].tasks) : gs[g].tasks[k].priority = "high"})
      /\ \A g \in 1..(Len(gs) - 1) :
           \/ gs[g].highPriorityCount > gs[g + 1].highPriorityCount
           \/ /\ gs[g].highPriorityCount = gs[g + 1].highPriorityCount
              /\ FirstEncounter(gs[g].founder) < FirstEncounter(gs[g + 1].founder)

----------------------------------------------------------------------------
(* The digests (digest.ts, send-digests.ts).  A bucket is modelled by the   *)
(* ids of its rows, in the order the query returns them.                    *)

\* lt(column, value) of the query builder: SQL's <, not true for a NULL
\* column; text compares byte by byte
SqlLt(a, b) == a # Null /\ StrLt(a, b)

\* eq(column, value): not true for a NULL column
SqlEq(a, b) == a # Null /\ a = b

\* new Date(Date.now() - k days).toISOString().split('T')[0]
DaysAgo(t, k) == DatePart(toISOString(t - k * MsPerDay))

\* the status list of the overdue query without circle_back_round_opens
OverdueEligibleWithoutCircleBack ==
  {"intro_request_sent", "introduced", "first_meeting_complete",
   "second_meeting_complete", "follow_up_questions"}

\* digest.ts, GET /founder/:founderId and GET /admin: the statuses of the
\* overdue queries
OverdueEligible ==
  {"intro_request_sent", "introduced", "first_meeting_complete",
   "second_meeting_complete", "follow_up_questions", "circle_back_round_opens"}

\* digest.ts, GET /pending: the statuses of its overdue branch
PendingOverdueStatuses ==
  {"intro_request_sent", "introduced", "first_meeting_complete",
   "second_meeting_complete", "follow_up_questions"}

NeedsUpdateStatuses ==
  {"first_meeting_complete", "second_meeting_complete", "invested"}

Ids(rows) == [k \in 1..Len(rows) |-> rows[k].id]

\* any follow-up log taken for the connector update
hasNodeUpdateLogAnyType(logs, id) ==
  \E k \in 1..Len(logs) : logs[k].introRequestId = id

hasNodeUpdateLog(logs, id) ==
  \E k \in 1..Len(logs) :
    logs[k].introRequestId = id /\ logs[k].followupType = "node_update"

\* the overdue query with the shorter status list
overdueFollowupsWithoutCircleBack(rows, f, t) ==
  SelectSeq(rows, LAMBDA r :
    /\ r.founderId = f
    /\ r.followupOwner = "founder"
    /\ SqlLt(r.nextFollowupDate, DaysAgo(t, 0))
    /\ r.status \in OverdueEligibleWithoutCircleBack)

\* the four queries of GET /founder/:founderId
overdueFollowups(rows, f, t) ==
  SelectSeq(rows, LAMBDA r :
    /\ r.founderId = f
    /\ r.followupOwner = "founder"
    /\ SqlLt(r.nextFollowupDate, DaysAgo(t, 0))
    /\ r.status \in OverdueEligible)

dueToday(rows, f, t) ==
  SelectSeq(rows, LAMBDA r :
    /\ r.founderId = f
    /\ r.followupOwner = "founder"
    /\ SqlEq(r.nextFollowupDate, DaysAgo(t, 0)))

pendingNodeResponse(rows, f, t) ==
  SelectSeq(rows, LAMBDA r :
    /\ r.founderId = f
    /\ r.status = "intro_request_sent"
    /\ r.dateNodeAsked = Null
    /\ SqlLt(r.dateRequested, DaysAgo(t, 3)))

nodesNeedingUpdate(rows, logs, f) ==
  SelectSeq(rows, LAMBDA r :
    /\ r.founderId = f
    /\ r.status \in NeedsUpdateStatuses
    /\ ~hasNodeUpdateLog(logs, r.id))

\* the body of GET /founder/:founderId for an existing founder
FounderDigest(rows, logs, f, t) ==
  LET o == Ids(overdueFollowups(rows, f, t))
      d == Ids(dueToday(rows, f, t))
      p == Ids(pendingNodeResponse(rows, f, t))
      n == Ids(nodesNeedingUpdate(rows, logs, f))
  IN  [route |-> "founder", code |-> 200, founder |-> f,
       digest |-> [overdueFollowups |-> o, dueToday |-> d,
                   pendingNodeResponse |-> p, nodesNeedingUpdate |-> n],
       summary |-> [overdueCount |-> Len(o), dueTodayCount |-> Len(d),
                    pendingNodeCount |-> Len(p),
                    nodesNeedingUpdateCount |-> Len(n)]]

\* send-digests.ts: the items of one founder, typed, in the order pushed
getFounderDigest(rows, logs, f, t) ==
  LET items(type, ids) == [k \in 1..Len(ids) |-> [type |-> type, intro |-> ids[k]]]
  IN  items("overdue", Ids(overdueFollowups(rows, f, t)))
        \o items("due_today", Ids(dueToday(rows, f, t)))
        \o items("pending_node", Ids(pendingNodeResponse(rows, f, t)))
        \o items("update_node", Ids(nodesNeedingUpdate(rows, logs, f)))

\* GET /pending: the where clause of needsAttention
needsAttention(rows, t) ==
  SelectSeq(rows, LAMBDA r :
    \/ /\ SqlLt(r.nextFollowupDate, DaysAgo(t, 0))
       /\ r.status \in PendingOverdueStatuses
    \/ SqlEq(r.nextFollowupDate, DaysAgo(t, 0))
    \/ /\ r.status = "intro_request_sent"
       /\ r.dateNodeAsked = Null
       /\ SqlLt(r.dateRequested, DaysAgo(t, 3)))

\* [...new Set(ids)]: the distinct values in the order of first appearance
RECURSIVE Distinct(_)
Distinct(ids) ==
  IF ids = <<>> THEN <<>>
  ELSE LET front == Distinct(SubSeq(ids, 1, Len(ids) - 1))
           x == ids[Len(ids)]
       IN  IF \E k \in 1..Len(front) : front[k] = x THEN front
           ELSE Append(front, x)

\* the body of GET /pending
PendingFounders(rows, t) ==
  LET na == needsAttention(rows, t)
      founderIds == Distinct([k \in 1..Len(na) |-> na[k].founderId])
  IN  [route |-> "pending", code |-> 200,
       list |-> [k \in 1..Len(founderIds) |->
                   [founder |-> founderIds[k],
                    actionCount |->
                      Len(SelectSeq(na, LAMBDA r : r.founderId = founderIds[k]))]]]

\* the escalation query with the three-day window of the pending query
escalatedAtThreeDays(rows, t) ==
  SelectSeq(rows, LAMBDA r :
    /\ r.status = "intro_request_sent"
    /\ r.dateNodeAsked = Null
    /\ SqlLt(r.dateRequested, DaysAgo(t, 3)))

\* the queries of GET /admin
escalated(rows, t) ==
  SelectSeq(rows, LAMBDA r :
    /\ r.status = "intro_request_sent"
    /\ r.dateNodeAsked = Null
    /\ SqlLt(r.dateRequested, DaysAgo(t, 5)))

adminOverdue(rows, t) ==
  SelectSeq(rows, LAMBDA r :
    /\ r.followupOwner = "admin"
    /\ SqlLt(r.nextFollowupDate, DaysAgo(t, 0))
    /\ r.status \in OverdueEligible)

\* every founder whose round is not closed
roundOpenFoundersNotClosed(fs) == {f \in DOMAIN fs : fs[f] # "round_closed"}

roundOpenFounders(fs) == {f \in DOMAIN fs : fs[f] = "round_open"}

circleBackOpportunities(rows, fs) ==
  SelectSeq(rows, LAMBDA r :
    /\ r.status = "circle_back_round_opens"
    /\ r.founderId \in roundOpenFounders(fs))

\* the body of GET /admin
AdminDigest(rows, fs, t) ==
  LET e == Ids(escalated(rows, t))
      a == Ids(adminOverdue(rows, t))
      cb == Ids(circleBackOpportunities(rows, fs))
  IN  [route |-> "admin", code |-> 200,
       escalated |-> e, adminOverdue |-> a, circleBackOpportunities |-> cb,
       summary |-> [escalatedCount |-> Len(e), adminOverdueCount |-> Len(a),
                    circleBackCount |-> Len(cb)]]

ErrorResponse(route, code) == [route |-> route, code |-> code]

\* GET /founder/:founderId
GetFounderDigest(f) ==
  /\ digest' = Response(IF f \in DOMAIN founders
                          THEN FounderDigest(introRequests, followupLogs, f, now)
                          ELSE ErrorResponse("founder", 404))
  /\ UNCHANGED <<storeVars, authVars, now, introVars, taskVars, bulkVars, founders, trends>>

\* GET /pending
GetPendingFounders ==
  /\ digest' = Response(PendingFounders(introRequests, now))
  /\ UNCHANGED <<storeVars, authVars, now, introVars, taskVars, bulkVars, founders, trends>>

\* GET /admin.  With no founder in round_open the query builder is handed
\* inArray(column, []): depending on its version it refuses (the request
\* fails) or matches no row.
GetAdminDigest ==
  /\ \/ digest' = Response(AdminDigest(introRequests, founders, now))
     \/ /\ roundOpenFounders(founders) = {}
        /\ digest' = Response(ErrorResponse("admin", 500))
  /\ UNCHANGED <<storeVars, authVars, now, introVars, taskVars, bulkVars, founders, trends>>

----------------------------------------------------------------------------
(* The digests of two stored rows at one clock reading: the first row takes *)
(* every status, owner and date of interest, the second one of a few shapes. *)

\* followup_owner: 'founder', 'admin' or NULL (here "")
FollowupOwnerValues == {"founder", "admin", ""}

DigestRequestedValues == {Null, <<NowDay - 3>>, <<NowDay - 4>>}

DateNodeAskedValues == {Null, <<NowDay - 1>>}

DigestRow(id, f, status, owner, nf, dr, dna) ==
  [NewIntro(id, f, 1, id, status, dr, toISOString(TaskNow))
     EXCEPT !.followupOwner = owner, !.nextFollowupDate = nf,
            !.dateNodeAsked = dna]

SecondRows(id, f) ==
  {DigestRow(id, f, "circle_back_round_opens", "founder", <<NowDay - 1>>, Null, Null),
   DigestRow(id, f, "passed", "founder", <<NowDay>>, Null, Null),
   DigestRow(id, f, "introduced", "admin", <<NowDay - 1>>, Null, Null),
   DigestRow(id, f, "intro_request_sent", "founder", Null, <<NowDay - 4>>, Null)}

RoundStatusValues == {"pre_round", "round_open", "round_closed"}

InitDigest ==
  /\ now = TaskNow
  /\ \E f1, f2 \in OrderFounders, status \in introStatusValues,
        owner \in FollowupOwnerValues, nf \in NextFollowupValues,
        dr \in DigestRequestedValues, dna \in DateNodeAskedValues :
       \E second \in SecondRows(2, f2) :
         introRequests = <<DigestRow(1, f1, status, owner, nf, dr, dna), second>>
  /\ founders = [f \in OrderFounders |-> "round_open"]
  /\ digest = NoResponse
  /\ trends = NoResponse
  /\ founderTasks = NoResponse
  /\ nodeTasks = NoResponse
  /\ IdleIntroHandlers
  /\ IdleBulk
  /\ IdleStore
  /\ IdleAuth

NextDigest ==
  \/ \E f \in OrderFounders : GetFounderDigest(f)
  \/ GetPendingFounders
  \/ \E f \in OrderFounders : GetFounderTasks(f)

SpecDigest == InitDigest /\ [][NextDigest]_vars

InSeq(x, s) == \E k \in 1..Len(s) : s[k] = x

\* the last digest response is the founder digest of founder f
IsFounderDigest(f) ==
  /\ digest.sent
  /\ digest.body.route = "founder"
  /\ digest.body.code = 200
  /\ digest.body.founder = f

OverdueEligibleRow(r) ==
  /\ r.status \in OverdueEligible
  /\ r.nextFollowupDate # Null
  /\ StrLt(r.nextFollowupDate, Today)

\* C13 as stated: every introduction with an overdue-eligible status and
\* nextFollowupDate before today is in overdueFollowups of its founder's
\* digest, and every founder task derived for it has priority high.
C13_AsClaimed ==
  \A id \in RowIds :
    LET r == RowOf(id) IN
      OverdueEligibleRow(r) =>
        /\ IsFounderDigest(r.founderId) =>
             InSeq(id, digest.body.digest.overdueFollowups)
        /\ founderTasks.sent =>
             \A k \in 1..Len(founderTasks.body) :
               founderTasks.body[k].intro = id =>
                 founderTasks.body[k].priority = "high"

\* C13 (amended): every introduction with followupOwner = founder, an
\* overdue-eligible status and nextFollowupDate before today is in
\* overdueFollowups of its founder's digest (route and script alike), and
\* every founder task derived for an introduction with such a status and
\* date has priority high.
C13_OverdueInDigestAndHigh ==
  \A id \in RowIds :
    LET r == RowOf(id) IN
      OverdueEligibleRow(r) =>
        /\ (r.followupOwner = "founder" /\ IsFounderDigest(r.founderId)) =>
             InSeq(id, digest.body.digest.overdueFollowups)
        /\ r.followupOwner = "founder" =>
             InSeq([type |-> "overdue", intro |-> id],
                   getFounderDigest(introRequests, followupLogs, r.founderId, now))
        /\ r.status # "intro_request_sent" =>
             Kinds(FounderTasksFor(r, now)) = <<(<<"overdue_followup", "high">>)>>
        /\ founderTasks.sent =>
             \A k \in 1..Len(founderTasks.body) :
               founderTasks.body[k].intro = id =>
                 founderTasks.body[k].priority = "high"

\* a founder-owned circle-back row overdue since yesterday: in
\* overdueFollowups of the digest just answered and with a high task in the
\* task list just answered
C13_Witness ==
  \E id \in RowIds :
    LET r == RowOf(id) IN
      /\ OverdueEligibleRow(r)
      /\ r.status = "circle_back_round_opens"
      /\ r.followupOwner = "founder"
      /\ IsFounderDigest(r.founderId)
      /\ InSeq(id, digest.body.digest.overdueFollowups)
      /\ founderTasks.sent
      /\ FounderKinds(id) = <<(<<"overdue_followup", "high">>)>>

SeqToSet(s) == {s[k] : k \in 1..Len(s)}

\* C14: dueToday holds exactly the founder's introductions with
\* followupOwner = founder, nextFollowupDate = today and an overdue-eligible
\* status; none of them has a terminal status; none is also in
\* overdueFollowups.
C14_DueTodayExact ==
  \A f \in OrderFounders :
    IsFounderDigest(f) =>
      LET due == SeqToSet(digest.body.digest.dueToday)
          over == SeqToSet(digest.body.digest.overdueFollowups)
      IN  /\ due = {id \in RowIds :
                      /\ RowOf(id).founderId = f
                      /\ RowOf(id).followupOwner = "founder"
                      /\ RowOf(id).nextFollowupDate = Today
                      /\ RowOf(id).status \in OverdueEligible}
          /\ \A id \in due : RowOf(id).status \notin TerminalStatuses
          /\ due \cap over = {}

\* the founder digest's overdue, due-today and pending predicates without
\* the followupOwner restriction
NeedsAttentionAsDigest(r, t) ==
  \/ /\ SqlLt(r.nextFollowupDate, DaysAgo(t, 0))
     /\ r.status \in OverdueEligible
  \/ SqlEq(r.nextFollowupDate, DaysAgo(t, 0))
  \/ /\ r.status = "intro_request_sent"
     /\ r.dateNodeAsked = Null
     /\ SqlLt(r.dateRequested, DaysAgo(t, 3))

\* C17: a founder is in the pending-founders list exactly when one of their
\* introductions satisfies a founder-digest predicate (overdue, due today,
\* pending connector response) without the followupOwner restriction, and
\* actionCount is the number of their introductions that do.
C17_PendingFounders ==
  (digest.sent /\ digest.body.route = "pending") =>
    LET list == digest.body.list
        count(f) == Cardinality({id \in RowIds :
                       /\ RowOf(id).founderId = f
                       /\ NeedsAttentionAsDigest(RowOf(id), now)})
    IN  /\ \A f \in OrderFounders :
             count(f) > 0 <=> \E k \in 1..Len(list) : list[k].founder = f
        /\ \A k \in 1..Len(list) : list[k].actionCount = count(list[k].founder)

----------------------------------------------------------------------------
(* A request waiting for its connector over the days: the clock advances,   *)
(* the admin records the connector being asked or changes the status.       *)

MaxDigestDay == 6

DayPasses ==
  /\ now + MsPerDay <= MaxDigestDay * MsPerDay + 60 * 60 * 1000
  /\ now' = now + MsPerDay
  /\ UNCHANGED <<storeVars, authVars, digestVars, introVars, taskVars, bulkVars>>

PendingStatusInputs == {"intro_request_sent", "introduced"}

InitPending ==
  /\ now = 60 * 60 * 1000
  /\ \E dr \in {Null, <<0>>, <<0, 60 * 60 * 1000>>} :
       introRequests =
         <<NewIntro(1, 1, 1, 1, "intro_request_sent", dr, toISOString(now))>>
  /\ IdleIntroHandlers
  /\ founders = [f \in {1} |-> "pre_round"]
  /\ digest = NoResponse
  /\ trends = NoResponse
  /\ founderTasks = NoResponse
  /\ nodeTasks = NoResponse
  /\ IdleBulk
  /\ IdleStore
  /\ IdleAuth

NextPending ==
  \/ DayPasses
  \/ AdminPut(1, [dateNodeAsked |-> Today])
  \/ AdminPut(1, [dateNodeAsked |-> Null])
  \/ \E p \in StatusPatches(PendingStatusInputs) : AdminPut(1, p)
  \/ GetFounderDigest(1)
  \/ GetAdminDigest

SpecPending == InitPending /\ [][NextPending]_vars

----------------------------------------------------------------------------
(* Two introductions at one clock reading: row 1 of founder 1 is updated by *)
(* the admin and gets follow-up logs from its founder, row 2 of founder 2   *)
(* waits for the round to open; the founders' round status changes.         *)

LifeFounders == {1, 2}

\* founders.ts, PUT /:id with a roundStatus
PutFounder(f, roundStatus) ==
  /\ f \in DOMAIN founders
  /\ founders' = [founders EXCEPT ![f] = roundStatus]
  /\ UNCHANGED <<storeVars, authVars, now, introVars, taskVars, bulkVars, digest, trends>>

LifeStatusInputs ==
  {"introduced", "first_meeting_complete", "invested", "circle_back_round_opens"}

LifeFollowupTypes == {"node_update", "meeting_update"}

InitLife ==
  /\ now = TaskNow
  /\ introRequests =
       <<NewIntro(1, 1, 1, 1, "intro_request_sent", Today, toISOString(now)),
         NewIntro(2, 2, 1, 2, "circle_back_round_opens", Today, toISOString(now))>>
  /\ followupLogs = <<>>
  /\ createPc = <<>>
  /\ followupPc = [h \in FollowupRequests |-> IdleFollowup]
  /\ founders = [f \in LifeFounders |-> "pre_round"]
  /\ digest = NoResponse
  /\ trends = NoResponse
  /\ founderTasks = NoResponse
  /\ nodeTasks = NoResponse
  /\ IdleBulk
  /\ IdleStore
  /\ IdleAuth

NextLife ==
  \/ \E p \in StatusPatches(LifeStatusInputs) : AdminPut(1, p)
  \/ \E h \in FollowupRequests, type \in LifeFollowupTypes :
        FounderFollowupInsert(h, 1, 1, type)
  \/ \E h \in FollowupRequests : FollowupUpdateParent(h)
  \/ \E f \in LifeFounders, rs \in RoundStatusValues : PutFounder(f, rs)
  \/ GetFounderDigest(1)
  \/ GetAdminDigest

SpecLife == InitLife /\ [][NextLife]_vars

\* the day of a stored date or instant, and of the clock
DayOf(s) == s[1]

\* a digest route answers in this step
FounderDigestAnswers(f) ==
  /\ digest' # digest
  /\ digest'.body.route = "founder"
  /\ digest'.body.code = 200
  /\ digest'.body.founder = f

AdminDigestAnswers ==
  /\ digest' # digest
  /\ digest'.body.route = "admin"
  /\ digest'.body.code = 200

AwaitingConnector(r) == r.status = "intro_request_sent" /\ r.dateNodeAsked = Null

PendingNow(id) ==
  InSeq(id, Ids(pendingNodeResponse(introRequests, RowOf(id).founderId, now)))

EscalatedNow(id) == InSeq(id, Ids(escalated(introRequests, now)))

\* pending exactly from the 4th day after dateRequested, escalated exactly
\* from the 6th
C15_Windows ==
  \A id \in RowIds :
    LET r == RowOf(id) IN
      AwaitingConnector(r) =>
        /\ PendingNow(id) <=>
             (r.dateRequested # Null /\ DayOf(Today) - DayOf(r.dateRequested) > 3)
        /\ EscalatedNow(id) <=>
             (r.dateRequested # Null /\ DayOf(Today) - DayOf(r.dateRequested) > 5)
        /\ EscalatedNow(id) => PendingNow(id)

\* what the two routes answer is what the windows say
C15_Answers ==
  \A id \in RowIds :
    LET r == RowOf(id) IN
      AwaitingConnector(r) =>
        /\ FounderDigestAnswers(r.founderId) =>
             (InSeq(id, digest'.body.digest.pendingNodeResponse) <=>
                (r.dateRequested # Null /\ DayOf(Today) - DayOf(r.dateRequested) > 3))
        /\ AdminDigestAnswers =>
             (InSeq(id, digest'.body.escalated) <=>
                (r.dateRequested # Null /\ DayOf(Today) - DayOf(r.dateRequested) > 5))

\* pending comes before escalated, and both last until dateNodeAsked or the
\* status is written
C15_Order ==
  \A id \in RowIds :
    /\ (~EscalatedNow(id) /\ EscalatedNow(id)' /\ introRequests' = introRequests)
         => PendingNow(id)
    /\ ((PendingNow(id) /\ ~PendingNow(id)') \/ (EscalatedNow(id) /\ ~EscalatedNow(id)'))
         => \/ RowOf(id)'.dateNodeAsked # RowOf(id).dateNodeAsked
            \/ RowOf(id)'.status # RowOf(id).status

NeedsUpdateNow(f) ==
  {id \in RowIds :
     /\ RowOf(id).founderId = f
     /\ RowOf(id).status \in NeedsUpdateStatuses
     /\ ~\E k \in 1..Len(followupLogs) :
           /\ followupLogs[k].introRequestId = id
           /\ followupLogs[k].followupType = "node_update"}

C16_Answers ==
  \A f \in LifeFounders :
    FounderDigestAnswers(f) =>
      LET b == digest'.body IN
        /\ SeqToSet(b.digest.nodesNeedingUpdate) = NeedsUpdateNow(f)
        /\ b.summary.overdueCount = Len(b.digest.overdueFollowups)
        /\ b.summary.dueTodayCount = Len(b.digest.dueToday)
        /\ b.summary.pendingNodeCount = Len(b.digest.pendingNodeResponse)
        /\ b.summary.nodesNeedingUpdateCount = Len(b.digest.nodesNeedingUpdate)

C16_LoggedStaysOut ==
  \A id \in RowIds :
    hasNodeUpdateLog(followupLogs, id) =>
      /\ ~InSeq(id, Ids(nodesNeedingUpdate(introRequests, followupLogs,
                                           RowOf(id).founderId)))
      /\ ~InSeq([type |-> "update_node", intro |-> id],
                getFounderDigest(introRequests, followupLogs, RowOf(id).founderId, now))

\* C16: needsConnectorUpdate holds exactly the founder's introductions in
\* first_meeting_complete, second_meeting_complete or invested that have no
\* follow-up log of type node_update; an introduction with such a log is not
\* in the bucket; the summary counts are the sizes of the four buckets.
C16_NeedsConnectorUpdate ==
  /\ []C16_LoggedStaysOut
  /\ [][C16_Answers]_vars

\* a first-meeting row with a meeting_update log only: listed by the founder
\* digest just answered
C16_Witness ==
  /\ IsFounderDigest(1)
  /\ digest.body = FounderDigest(introRequests, followupLogs, 1, now)
  /\ RowOf(1).status = "first_meeting_complete"
  /\ followupLogs # <<>>
  /\ InSeq(1, digest.body.digest.nodesNeedingUpdate)
  /\ digest.body.summary.nodesNeedingUpdateCount = 1

C18_Answers ==
  AdminDigestAnswers =>
    SeqToSet(digest'.body.circleBackOpportunities) =
      {id \in RowIds :
         /\ RowOf(id).status = "circle_back_round_opens"
         /\ founders[RowOf(id).founderId] = "round_open"}

\* C18: circleBackOpportunities of every admin digest holds exactly the
\* introductions in circle_back_round_opens whose founder's roundStatus is
\* round_open at that time: none of a founder in round_closed or pre_round,
\* and none of a founder who has left round_open.
C18_CircleBackOnlyRoundOpen ==
  [][C18_Answers]_vars

\* both rows wait for the round; founder 1's is open, founder 2's closed:
\* the admin digest just answered lists row 1 only
C18_Witness ==
  /\ digest.sent
  /\ digest.body = AdminDigest(introRequests, founders, now)
  /\ RowOf(1).status = "circle_back_round_opens"
  /\ RowOf(2).status = "circle_back_round_opens"
  /\ founders[1] = "round_open"
  /\ founders[2] = "round_closed"
  /\ digest.body.circleBackOpportunities = <<1>>

----------------------------------------------------------------------------
(* IEEE 754 binary64 arithmetic as far as the trend rates use it.  A        *)
(* positive double is [bits, lsb]: its 53 significand bits, most            *)
(* significant first, and the binary exponent of the last one.  Results are *)
(* rounded to nearest, ties to even.                                        *)

SignificandBits == 53

\* 2^k modulo b, by repeated squaring
RECURSIVE Pow2Mod(_, _)
Pow2Mod(k, b) ==
  IF k = 0 THEN 1 % b
  ELSE LET h == Pow2Mod(k \div 2, b)
       IN  (h * h * (IF k % 2 = 1 THEN 2 ELSE 1)) % b

\* the remainder of the long division r / b (0 <= r < b) after k bits
RemAfter(r, b, k) == (r * Pow2Mod(k, b)) % b

\* bits `from`..`to` after the binary point of r / b
FracBits(r, b, from, to) ==
  [k \in 1..(to - from + 1) |->
     IF 2 * RemAfter(r, b, from + k - 2) >= b THEN 1 ELSE 0]

\* the number of zero bits of r / b (0 < r < b) ahead of its first one bit
RECURSIVE ZeroCount(_, _)
ZeroCount(r, b) == IF 2 * r >= b THEN 0 ELSE 1 + ZeroCount(2 * r, b)

Zeros(n) == [k \in 1..n |-> 0]

\* x + 1 for a bit sequence x; one bit longer on overflow
Increment(x) ==
  IF \A k \in 1..Len(x) : x[k] = 1 THEN <<1>> \o Zeros(Len(x))
  ELSE LET p == CHOOSE k \in 1..Len(x) :
                  x[k] = 0 /\ \A j \in (k + 1)..Len(x) : x[j] = 1
       IN  [k \in 1..Len(x) |-> IF k < p THEN x[k] ELSE IF k = p THEN 1 ELSE 0]

RECURSIVE BitsToInt(_)
BitsToInt(x) ==
  IF Len(x) = 0 THEN 0
  ELSE IF Len(x) = 1 THEN x[1]
  ELSE LET h == Len(x) \div 2
       IN  BitsToInt(SubSeq(x, 1, h)) * 2^(Len(x) - h)
             + BitsToInt(SubSeq(x, h + 1, Len(x)))

\* the n low bits of x
IntToBits(x, n) == [k \in 1..n |-> (x \div 2^(n - k)) % 2]

BitLength(x) == CHOOSE n \in 1..31 : x < 2^n /\ (n = 1 \/ x >= 2^(n - 1))

\* the exact value bits * 2^lsb (bits[1] = 1, at least 53 bits) rounded to
\* 53 bits, ties to even
RoundToDouble(bits, lsb) ==
  LET extra == Len(bits) - SignificandBits
      kept == SubSeq(bits, 1, SignificandBits)
      rest == SubSeq(bits, SignificandBits + 1, Len(bits))
      sticky == \E k \in 2..Len(rest) : rest[k] = 1
      roundUp == extra > 0 /\ rest[1] = 1 /\ (sticky \/ kept[SignificandBits] = 1)
      m == IF roundUp THEN Increment(kept) ELSE kept
  IN  IF Len(m) > SignificandBits
        THEN [bits |-> SubSeq(m, 1, SignificandBits), lsb |-> lsb + extra + 1]
        ELSE [bits |-> m, lsb |-> lsb + extra]

\* a / b for integers 0 < a <= b
fdivide(a, b) ==
  IF a = b THEN [bits |-> <<1>> \o Zeros(SignificandBits - 1),
                 lsb |-> 0 - (SignificandBits - 1)]
  ELSE LET z == ZeroCount(a, b)
           bits == FracBits(a, b, z + 1, z + SignificandBits + 1)
           sticky == IF RemAfter(a, b, z + SignificandBits + 1) # 0 THEN <<1>>
                     ELSE <<0>>
       IN  RoundToDouble(bits \o sticky, 0 - (z + SignificandBits + 2))

\* x * 100, the significand taken in three pieces of 18, 18 and 17 bits
ftimes100(x) ==
  LET low == BitsToInt(SubSeq(x.bits, 37, 53)) * 100
      mid == BitsToInt(SubSeq(x.bits, 19, 36)) * 100 + low \div 2^17
      top == BitsToInt(SubSeq(x.bits, 1, 18)) * 100 + mid \div 2^18
      product == IntToBits(top, BitLength(top)) \o IntToBits(mid % 2^18, 18)
                   \o IntToBits(low % 2^17, 17)
  IN  RoundToDouble(product, x.lsb)

\* Math.round of a positive double below 2^52: the nearest integer, a tie
\* going up
MathRound(x) ==
  LET intLen == SignificandBits + x.lsb
      whole == IF intLen > 0 THEN BitsToInt(SubSeq(x.bits, 1, intLen)) ELSE 0
      half == IF intLen >= 0 /\ intLen < SignificandBits THEN x.bits[intLen + 1]
              ELSE 0
  IN  whole + half

\* Math.round((a / b) * 100) for integers 0 <= a <= b, b > 0
RoundedPercent(a, b) ==
  IF a = 0 THEN 0 ELSE MathRound(ftimes100(fdivide(a, b)))

----------------------------------------------------------------------------
(* GET /stats/trends (intro-requests.ts).  A month (the YYYY-MM prefix of a *)
(* date) is modelled by its number, 0 for 2025-04, the month of the epoch.  *)

\* the first days, counted from the epoch 2025-04-29, of 2025-05, 2025-06,
\* 2025-07 and so on to 2026-02
MonthStarts == <<2, 33, 63, 94, 125, 155, 186, 216, 247, 278>>

\* dateStr.substring(0, 7)
MonthKey(s) == Cardinality({k \in 1..Len(MonthStarts) : MonthStarts[k] <= s[1]})

\* the statuses counted as introduced, with invested left out
IntroducedStatusesWithoutInvested ==
  {"introduced", "first_meeting_complete", "second_meeting_complete",
   "follow_up_questions", "circle_back_round_opens"}

IntroducedStatuses ==
  {"introduced", "first_meeting_complete", "second_meeting_complete",
   "follow_up_questions", "circle_back_round_opens", "invested"}

MeetingStatuses ==
  {"first_meeting_complete", "second_meeting_complete", "follow_up_questions",
   "circle_back_round_opens", "invested"}

\* the counters of one month after the loop over allRequests
monthlyData(rows, month) ==
  LET dated == SelectSeq(rows, LAMBDA r :
                 /\ OrElse(r.dateRequested, r.createdAt) # Null
                 /\ MonthKey(OrElse(r.dateRequested, r.createdAt)) = month)
      count(S) == Len(SelectSeq(dated, LAMBDA r : r.status \in S))
  IN  [total |-> Len(dated),
       introduced |-> count(IntroducedStatuses),
       meetings |-> count(MeetingStatuses),
       passed |-> count({"passed"}),
       ignored |-> count({"ignored"}),
       invested |-> count({"invested"})]

\* the keys of a set in ascending order
RECURSIVE Ascending(_)
Ascending(S) ==
  IF S = {} THEN <<>>
  ELSE LET m == CHOOSE x \in S : \A y \in S : x <= y
       IN  <<m>> \o Ascending(S \ {m})

\* .sort().reverse()
RECURSIVE Descending(_)
Descending(S) ==
  IF S = {} THEN <<>>
  ELSE LET m == CHOOSE x \in S : \A y \in S : y <= x
       IN  <<m>> \o Descending(S \ {m})

Reverse(s) == [k \in 1..Len(s) |-> s[Len(s) + 1 - k]]

\* the effective dates of the rows that have one, in the order of the rows
EffectiveDates(rows) ==
  LET dated == SelectSeq(rows, LAMBDA r : OrElse(r.dateRequested, r.createdAt) # Null)
  IN  [k \in 1..Len(dated) |-> OrElse(dated[k].dateRequested, dated[k].createdAt)]

\* Object.keys(monthlyData): the months in the order the loop first met them
RECURSIVE InsertionOrder(_)
InsertionOrder(dates) ==
  IF dates = <<>> THEN <<>>
  ELSE LET front == InsertionOrder(SubSeq(dates, 1, Len(dates) - 1))
           m == MonthKey(dates[Len(dates)])
       IN  IF \E k \in 1..Len(front) : front[k] = m THEN front
           ELSE Append(front, m)

\* the keys reversed without being sorted
reversedKeys(rows) ==
  LET keys == InsertionOrder(EffectiveDates(rows))
  IN  [k \in 1..Len(keys) |-> keys[Len(keys) + 1 - k]]

\* Object.keys(monthlyData).sort().reverse()
sortedKeysDescending(rows) ==
  LET keys == InsertionOrder(EffectiveDates(rows))
  IN  Descending({keys[k] : k \in 1..Len(keys)})

\* .slice(0, 6)
TrendMonths == 6

\* the rates of one month's counters
introRate(data) ==
  LET completedIntros == data.introduced + data.passed + data.ignored
  IN  IF completedIntros > 0 THEN RoundedPercent(data.introduced, completedIntros)
      ELSE 0

meetingRate(data) ==
  IF data.introduced > 0 THEN RoundedPercent(data.meetings, data.introduced)
  ELSE 0

\* one element of monthlyStats
MonthStat(month, data) ==
  [month |-> month, total |-> data.total, introduced |-> data.introduced,
   meetings |-> data.meetings, passed |-> data.passed, ignored |-> data.ignored,
   invested |-> data.invested,
   introRate |-> introRate(data), meetingRate |-> meetingRate(data)]

NoStat ==
  [total |-> 0, introduced |-> 0, meetings |-> 0, passed |-> 0, ignored |-> 0,
   invested |-> 0, introRate |-> 0, meetingRate |-> 0]

\* every direction reported the other way round
DirectionInverted(current, previous) ==
  IF current < previous THEN "up" ELSE IF current > previous THEN "down" ELSE "same"

Direction(current, previous) ==
  IF current > previous THEN "up" ELSE IF current < previous THEN "down" ELSE "same"

Compared(current, previous, direction) ==
  [current |-> current, previous |-> previous, change |-> current - previous,
   direction |-> direction]

\* the body of GET /stats/trends
computeTrends(rows) ==
  LET sorted == sortedKeysDescending(rows)
      sortedMonths == SubSeq(sorted, 1, IF Len(sorted) < TrendMonths THEN Len(sorted)
                                        ELSE TrendMonths)
      monthlyStats == [k \in 1..Len(sortedMonths) |->
                         MonthStat(sortedMonths[k], monthlyData(rows, sortedMonths[k]))]
      current == IF Len(monthlyStats) >= 1 THEN monthlyStats[1] ELSE NoStat
      previous == IF Len(monthlyStats) >= 2 THEN monthlyStats[2] ELSE NoStat
      cmp(c, p) == Compared(c, p, Direction(c, p))
  IN  [monthlyStats |-> Reverse(monthlyStats),
       comparison |->
         [intros |-> cmp(current.total, previous.total),
          meetings |-> cmp(current.meetings, previous.meetings),
          introRate |-> cmp(current.introRate, previous.introRate),
          meetingRate |-> cmp(current.meetingRate, previous.meetingRate),
          invested |-> cmp(current.invested, previous.invested),
          ignored |-> Compared(current.ignored, previous.ignored,
                               Direction(previous.ignored, current.ignored))]]

\* GET /stats/trends
GetTrends ==
  /\ trends' = Response(computeTrends(introRequests))
  /\ UNCHANGED <<storeVars, authVars, now, introVars, taskVars, bulkVars, founders, digest>>

----------------------------------------------------------------------------
(* The trends of a few stored rows *)

MaxTrendRows == 2

\* two days of 2025-05, and no dateRequested with a createdAt in 2025-06
TrendDates ==
  {[dateRequested |-> <<2>>, createdAt |-> <<40, 0>>],
   [dateRequested |-> <<20>>, createdAt |-> <<40, 0>>],
   [dateRequested |-> Null, createdAt |-> <<40, 0>>]}

TrendRow(id, status, d) ==
  [NewIntro(id, 1, 1, id, status, d.dateRequested, d.createdAt)
     EXCEPT !.updatedAt = d.createdAt]

InitTrends ==
  /\ now = TaskNow
  /\ \E n \in 1..MaxTrendRows :
       \E ss \in [1..n -> introStatusValues], ds \in [1..n -> TrendDates] :
         introRequests = [k \in 1..n |-> TrendRow(k, ss[k], ds[k])]
  /\ IdleIntroHandlers
  /\ IdleDigest
  /\ founderTasks = NoResponse
  /\ nodeTasks = NoResponse
  /\ IdleBulk
  /\ IdleStore
  /\ IdleAuth

NextTrends == GetTrends

SpecTrends == InitTrends /\ [][NextTrends]_vars

\* the rows whose effective date has the YYYY-MM prefix of month m
RowsOfMonth(m) ==
  {id \in RowIds :
     MonthKey(OrElse(RowOf(id).dateRequested, RowOf(id).createdAt)) = m}

CountIn(ids, S) == Cardinality({id \in ids : RowOf(id).status \in S})

\* C19: the trends bucket each introduction by the YYYY-MM prefix of
\* dateRequested, else createdAt; per bucket, total is the number of its
\* introductions, introduced counts introduced, first_meeting_complete,
\* second_meeting_complete, follow_up_questions, circle_back_round_opens and
\* invested, meetings the same without introduced, passed, ignored and
\* invested their own status; invested <= meetings <= introduced and
\* introduced + passed + ignored <= total.
C19_TrendBuckets ==
  trends.sent =>
    LET stats == trends.body.monthlyStats IN
      /\ \A i, j \in 1..Len(stats) : i < j => stats[i].month < stats[j].month
      /\ \A id \in RowIds :
           \E k \in 1..Len(stats) : RowOf(id).id \in RowsOfMonth(stats[k].month)
      /\ \A k \in 1..Len(stats) :
           LET e == stats[k]
               ids == RowsOfMonth(e.month)
           IN  /\ e.total = Cardinality(ids)
               /\ e.introduced =
                    CountIn(ids, {"introduced", "first_meeting_complete",
                                  "second_meeting_complete", "follow_up_questions",
                                  "circle_back_round_opens", "invested"})
               /\ e.meetings =
                    CountIn(ids, {"first_meeting_complete", "second_meeting_complete",
                                  "follow_up_questions", "circle_back_round_opens",
                                  "invested"})
               /\ e.passed = CountIn(ids, {"passed"})
               /\ e.ignored = CountIn(ids, {"ignored"})
               /\ e.invested = CountIn(ids, {"invested"})
               /\ e.invested <= e.meetings
               /\ e.meetings <= e.introduced
               /\ e.introduced + e.passed + e.ignored <= e.total

\* two introductions requested on different days of one month, one of them
\* invested: one bucket with total 2
C19_Witness ==
  /\ trends.sent
  /\ Len(introRequests) = 2
  /\ introRequests[1].dateRequested = <<2>>
  /\ introRequests[2].dateRequested = <<20>>
  /\ introRequests[2].status = "invested"
  /\ Len(trends.body.monthlyStats) = 1
  /\ trends.body.monthlyStats[1].total = 2
  /\ trends.body.monthlyStats[1].invested = 1

----------------------------------------------------------------------------
(* The rates of one month, over the counts its rows can make *)

MaxCount == 40

\* the rows of one month: meetings rows that reached a first meeting,
\* introduced - meetings rows merely introduced, then rows passed and ignored
\* in turn, then rows still waiting; a month has rows with meetings or rows
\* closed without an introduction, each rate depending on one of the two
RateStatus(k, introduced, meetings, closed) ==
  IF k <= meetings THEN "first_meeting_complete"
  ELSE IF k <= introduced THEN "introduced"
  ELSE IF k <= introduced + closed
       THEN (IF (k - introduced) % 2 = 1 THEN "passed" ELSE "ignored")
  ELSE "intro_request_sent"

InitRates ==
  /\ now = TaskNow
  /\ \E introduced \in 0..MaxCount :
       \E meetings \in 0..introduced, closed \in 0..(MaxCount - introduced),
          waiting \in 0..1 :
         /\ meetings = 0 \/ closed = 0
         /\ introRequests =
           [k \in 1..(introduced + closed + waiting) |->
              TrendRow(k, RateStatus(k, introduced, meetings, closed),
                       [dateRequested |-> <<2>>, createdAt |-> <<40, 0>>])]
  /\ IdleIntroHandlers
  /\ IdleDigest
  /\ founderTasks = NoResponse
  /\ nodeTasks = NoResponse
  /\ IdleBulk
  /\ IdleStore
  /\ IdleAuth

NextRates == GetTrends

SpecRates == InitRates /\ [][NextRates]_vars

\* a / b rounded to the nearest integer, a half rounded up
RoundHalfUp(a, b) == (2 * a + b) \div (2 * b)

\* C20: in every trend bucket introRate = round(100 * introduced /
\* (introduced + passed + ignored)), 0 when that denominator is 0, and
\* meetingRate = round(100 * meetings / introduced), 0 when introduced is 0;
\* both are integers in 0..100.
C20_Rates ==
  trends.sent =>
    \A k \in 1..Len(trends.body.monthlyStats) :
      LET e == trends.body.monthlyStats[k]
          completed == e.introduced + e.passed + e.ignored
      IN  /\ e.introRate = IF completed = 0 THEN 0
                           ELSE RoundHalfUp(100 * e.introduced, completed)
          /\ e.meetingRate = IF e.introduced = 0 THEN 0
                             ELSE RoundHalfUp(100 * e.meetings, e.introduced)
          /\ e.introRate \in 0..100
          /\ e.meetingRate \in 0..100

----------------------------------------------------------------------------
(* The trends of rows spread over more months than the response lists *)

MaxMonths == 7

\* the first day of a month, 2025-04 beginning before the epoch
MonthFirstDay(m) == IF m = 0 THEN 0 ELSE MonthStarts[m]

\* the statuses of the rows of the months table
MonthRowStatuses == {"intro_request_sent", "invested"}

\* one row in each month of a set, stored from the earliest month to the
\* latest or the other way round
InitMonths ==
  /\ now = TaskNow
  /\ \E S \in SUBSET (0..MaxMonths), status \in MonthRowStatuses,
        latestFirst \in BOOLEAN :
       LET months == IF latestFirst THEN Descending(S) ELSE Ascending(S)
       IN  introRequests =
             [k \in 1..Len(months) |->
                TrendRow(k, status, [dateRequested |-> <<MonthFirstDay(months[k])>>,
                                     createdAt |-> <<MonthFirstDay(months[k]), 0>>])]
  /\ IdleIntroHandlers
  /\ IdleDigest
  /\ founderTasks = NoResponse
  /\ nodeTasks = NoResponse
  /\ IdleBulk
  /\ IdleStore
  /\ IdleAuth

NextMonths == GetTrends

SpecMonths == InitMonths /\ [][NextMonths]_vars

\* the month keys present in the stored rows
MonthsPresent ==
  {MonthKey(OrElse(RowOf(id).dateRequested, RowOf(id).createdAt)) : id \in RowIds}

\* the months the answer lists
MonthsListed ==
  {trends.body.monthlyStats[k].month : k \in 1..Len(trends.body.monthlyStats)}

\* C21: monthlyStats holds at most 6 buckets, exactly the 6 largest month
\* keys present in the data (all of them when fewer than 6 exist), listed in
\* strictly ascending month order.
C21_LastSixMonths ==
  trends.sent =>
    LET stats == trends.body.monthlyStats IN
      /\ Len(stats) <= 6
      /\ Len(stats) = IF Cardinality(MonthsPresent) < 6 THEN Cardinality(MonthsPresent)
                      ELSE 6
      /\ MonthsListed \subseteq MonthsPresent
      /\ \A m \in MonthsPresent \ MonthsListed : \A l \in MonthsListed : m < l
      /\ \A i, j \in 1..Len(stats) : i < j => stats[i].month < stats[j].month

\* eight months present, the earliest stored first: the answer lists the
\* latest six, beginning with 2025-06
C21_Witness ==
  /\ trends.sent
  /\ Cardinality(MonthsPresent) = 8
  /\ introRequests[1].dateRequested = <<0>>
  /\ Len(trends.body.monthlyStats) = 6
  /\ trends.body.monthlyStats[1].month = 2
  /\ trends.body.monthlyStats[6].month = 7

\* the bucket in position k from the end of monthlyStats, zeros when absent
BucketFromEnd(k) ==
  LET stats == trends.body.monthlyStats
  IN  IF Len(stats) >= k THEN stats[Len(stats) + 1 - k] ELSE NoStat

\* change and direction of a compared pair, a rise reported as up
RisesUp(c, current, previous) ==
  /\ c.current = current
  /\ c.previous = previous
  /\ c.change = current - previous
  /\ c.direction = "up" <=> current > previous
  /\ c.direction = "down" <=> current < previous
  /\ c.direction = "same" <=> current = previous

\* C22: the comparison is between the current bucket and the immediately
\* preceding one; for count, meetings, introRate, meetingRate and invested
\* change = current - previous and direction is up, down or same as current
\* is above, below or equal to previous; for ignored the change is
\* current - previous and the direction is inverted.
C22_Comparison ==
  trends.sent =>
    LET cur == BucketFromEnd(1)
        prev == BucketFromEnd(2)
        c == trends.body.comparison
    IN  /\ RisesUp(c.intros, cur.total, prev.total)
        /\ RisesUp(c.meetings, cur.meetings, prev.meetings)
        /\ RisesUp(c.introRate, cur.introRate, prev.introRate)
        /\ RisesUp(c.meetingRate, cur.meetingRate, prev.meetingRate)
        /\ RisesUp(c.invested, cur.invested, prev.invested)
        /\ c.ignored.current = cur.ignored
        /\ c.ignored.previous = prev.ignored
        /\ c.ignored.change = cur.ignored - prev.ignored
        /\ c.ignored.direction = "up" <=> cur.ignored < prev.ignored
        /\ c.ignored.direction = "down" <=> cur.ignored > prev.ignored
        /\ c.ignored.direction = "same" <=> cur.ignored = prev.ignored

\* an ignored row in 2025-05 and an invested row in 2025-06: fewer ignored
\* is reported up with change -1, and more invested is reported up
C22_Witness ==
  /\ trends.sent
  /\ Len(trends.body.monthlyStats) = 2
  /\ trends.body.comparison.ignored.change = -1
  /\ trends.body.comparison.ignored.direction = "up"
  /\ trends.body.comparison.invested.change = 1
  /\ trends.body.comparison.invested.direction = "up"
  /\ trends.body.comparison.intros.direction = "same"

\* the stored rows read in another order
Reordered(p) == [k \in 1..Len(introRequests) |-> introRequests[p[k]]]

\* C23: computeTrends over an identical snapshot yields identical output
\* (monthlyStats and comparison), whatever the order of the introductions
\* in the snapshot.
C23_OrderIndependent ==
  trends.sent =>
    \A p \in Permutations(1..Len(introRequests)) :
      computeTrends(Reordered(p)) = trends.body

\* a later month stored before an earlier one, with different statuses
C23_Witness ==
  /\ trends.sent
  /\ Len(introRequests) = 2
  /\ introRequests[1].dateRequested = Null
  /\ introRequests[2].dateRequested = <<2>>
  /\ introRequests[1].status = "passed"
  /\ introRequests[2].status = "introduced"
  /\ trends.body.monthlyStats[1].month = 1
  /\ trends.body.monthlyStats[2].month = 2

----------------------------------------------------------------------------
(* A stored row whose status is none of the enumerated values.  The column  *)
(* is free text (schema.ts line 117); the routes validate what they write,  *)
(* another writer of the table need not.                                    *)

ForeignStatuses == {"on_hold", "introduced", "passed"}

InitForeign ==
  /\ now = TaskNow
  /\ \E status \in ForeignStatuses, age \in TouchAges, delta \in TouchDeltas,
        nf \in NextFollowupValues :
       introRequests =
         <<[NewIntro(1, 1, 1, 1, status, <<NowDay - 3>>,
                     toISOString(now - age - delta))
              EXCEPT !.updatedAt = toISOString(now - age),
                     !.nextFollowupDate = nf]>>
  /\ founders = [f \in Founders |-> "pre_round"]
  /\ digest = NoResponse
  /\ trends = NoResponse
  /\ founderTasks = NoResponse
  /\ nodeTasks = NoResponse
  /\ IdleIntroHandlers
  /\ IdleBulk
  /\ IdleStore
  /\ IdleAuth

NextForeign ==
  \/ \E f \in Founders : GetFounderTasks(f)
  \/ \E n \in Nodes : GetNodeTasks(n)
  \/ \E f \in Founders : GetFounderDigest(f)
  \/ GetTrends

SpecForeign == InitForeign /\ [][NextForeign]_vars

\* the stored rows whose status is outside the enumeration
ForeignRows == {id \in RowIds : RowOf(id).status \notin introStatusValues}

\* C24: when an introduction carries a status outside the ten enumerated
\* values, task derivation, digest building and trend computation surface a
\* validation error; no answer carries a task, a digest item or a count for
\* that introduction.
C24_ForeignStatusRejected ==
  \A id \in ForeignRows :
    /\ founderTasks.sent =>
         \A k \in 1..Len(founderTasks.body) : founderTasks.body[k].intro # id
    /\ nodeTasks.sent =>
         \A g \in 1..Len(nodeTasks.body) :
           \A k \in 1..Len(nodeTasks.body[g].tasks) :
             nodeTasks.body[g].tasks[k].intro # id
    /\ digest.sent /\ digest.body.code = 200 =>
         /\ ~InSeq(id, digest.body.digest.overdueFollowups)
         /\ ~InSeq(id, digest.body.digest.dueToday)
         /\ ~InSeq(id, digest.body.digest.pendingNodeResponse)
         /\ ~InSeq(id, digest.body.digest.nodesNeedingUpdate)
    /\ trends.sent =>
         \A k \in 1..Len(trends.body.monthlyStats) :
           trends.body.monthlyStats[k].total =
             Cardinality(RowsOfMonth(trends.body.monthlyStats[k].month) \ ForeignRows)

----------------------------------------------------------------------------
(* The row a create route inserts *)

\* C25: every introduction is in status intro_request_sent at the moment
\* it is created, by the admin create route and by the founder portal's
\* request-intro, with createdAt = updatedAt.
C25_CreatedAsRequestSent ==
  [][Len(introRequests') = Len(introRequests) + 1 =>
       LET new == introRequests'[Len(introRequests')]
       IN  /\ new.status = "intro_request_sent"
           /\ new.createdAt = new.updatedAt]_vars

----------------------------------------------------------------------------
(* Deleting introductions and nodes.  followup_logs.intro_request_id        *)
(* references intro_requests.id with ON DELETE no action, and the           *)
(* better-sqlite3 connection enforces foreign keys: a statement that would  *)
(* leave a log without its introduction fails as a whole, the handler       *)
(* throws and the route answers 500.                                        *)

HasLogs(id) == \E k \in 1..Len(followupLogs) : followupLogs[k].introRequestId = id

\* POST /:id/followups (admin) up to the end of its insert; the route does
\* not look the introduction up, the foreign key does
AdminFollowupInsert(h, id, type) ==
  /\ followupPc[h].pc = "idle"
  /\ IF id \in RowIds
       THEN /\ followupLogs' =
                 Append(followupLogs,
                        [id |-> Len(followupLogs) + 1, introRequestId |-> id,
                         followupType |-> type, completedBy |-> "admin",
                         completedAt |-> toISOString(now)])
            /\ followupPc' = [followupPc EXCEPT ![h] =
                 [pc |-> "inserted", code |-> 0, introId |-> id,
                  at |-> toISOString(now)]]
       ELSE /\ followupPc' = [followupPc EXCEPT ![h] =
                 [pc |-> "done", code |-> 500, introId |-> id, at |-> Null]]
            /\ UNCHANGED followupLogs
  /\ UNCHANGED <<storeVars, authVars, digestVars, now, introRequests, createPc, taskVars,
               bulkVars>>

DeleteResponse(route, id, code) == Response([route |-> route, id |-> id, code |-> code])

\* DELETE /:id of intro-requests.ts
DeleteIntro(id) ==
  /\ IF id \notin RowIds
       THEN /\ deletion' = DeleteResponse("intro", id, 404)
            /\ UNCHANGED introRequests
     ELSE IF HasLogs(id)
       THEN /\ deletion' = DeleteResponse("intro", id, 500)
            /\ UNCHANGED introRequests
     ELSE /\ deletion' = DeleteResponse("intro", id, 200)
          /\ introRequests' = SelectSeq(introRequests, LAMBDA r : r.id # id)
  /\ UNCHANGED <<nodes, introSeq, authVars, digestVars, now, followupLogs, createPc,
               followupPc, taskVars, bulkVars>>

\* DELETE /:id of nodes.ts: the node's connections and relationships, its
\* introductions, then the node
DeleteNode(n) ==
  /\ IF n \notin nodes
       THEN /\ deletion' = DeleteResponse("node", n, 404)
            /\ UNCHANGED <<introRequests, nodes>>
     ELSE IF \E id \in RowIds : RowOf(id).nodeId = n /\ HasLogs(id)
       THEN /\ deletion' = DeleteResponse("node", n, 500)
            /\ UNCHANGED <<introRequests, nodes>>
     ELSE /\ deletion' = DeleteResponse("node", n, 200)
          /\ introRequests' = SelectSeq(introRequests, LAMBDA r : r.nodeId # n)
          /\ nodes' = nodes \ {n}
  /\ UNCHANGED <<introSeq, authVars, digestVars, now, followupLogs, createPc,
               followupPc, taskVars, bulkVars>>

InitStore ==
  /\ now = TaskNow
  /\ introRequests = <<>>
  /\ followupLogs = <<>>
  /\ createPc = [h \in CreateRequests |-> IdleCreate]
  /\ followupPc = [h \in FollowupRequests |-> IdleFollowup]
  /\ founderTasks = NoResponse
  /\ nodeTasks = NoResponse
  /\ IdleDigest
  /\ IdleBulk
  /\ IdleStore
  /\ IdleAuth

NextStore ==
  \/ \E h \in CreateRequests : AdminCreateCheck(h, 1, 1, "", Null)
  \/ \E h \in CreateRequests : CreateInsert(h)
  \/ \E h \in FollowupRequests, id \in CreateRequests :
        AdminFollowupInsert(h, id, "node_update")
  \/ \E h \in FollowupRequests, id \in CreateRequests :
        FounderFollowupInsert(h, 1, id, "meeting_update")
  \/ \E h \in FollowupRequests : FollowupUpdateParent(h)
  \/ \E id \in RowIds : AdminPut(id, [status |-> "passed"])
  \/ \E id \in CreateRequests : DeleteIntro(id)
  \/ \E n \in Nodes : DeleteNode(n)

SpecStore == InitStore /\ [][NextStore]_vars

\* every follow-up log references one stored introduction
LogsHaveParents ==
  \A k \in 1..Len(followupLogs) :
    Cardinality({j \in 1..Len(introRequests) :
                   introRequests[j].id = followupLogs[k].introRequestId}) = 1

\* a DELETE of a stored introduction, or of a node, leaves neither the
\* introductions asked to go nor any of their logs
DeleteRemovesLogs ==
  deletion' # deletion =>
    LET d == deletion'.body
        gone == IF d.route = "intro" THEN {d.id} \cap RowIds
                ELSE {id \in RowIds : RowOf(id).nodeId = d.id}
    IN  \A id \in gone :
          /\ \A k \in 1..Len(introRequests') : introRequests'[k].id # id
          /\ \A k \in 1..Len(followupLogs') : followupLogs'[k].introRequestId # id

\* C26: after any sequence of create-introduction, add-follow-up-log,
\* delete-introduction and delete-node operations every follow-up log
\* references exactly one existing introduction: deleting an introduction,
\* directly or through its node, removes all of its logs, and a log is never
\* added for an introduction id that does not exist.
C26_LogsFollowTheirIntroduction ==
  /\ []LogsHaveParents
  /\ [][DeleteRemovesLogs]_vars

----------------------------------------------------------------------------
(* The two writes of a follow-up: the log, then its parent.  Each handler   *)
(* that has inserted its log goes on to update the parent once the insert   *)
(* has resolved; nothing in the handler can keep it from that step.         *)

InitFollowup ==
  /\ now = 0
  /\ introRequests =
       <<NewIntro(1, 1, 1, 1, "introduced", DatePart(toISOString(0)), toISOString(0))>>
  /\ followupLogs = <<>>
  /\ createPc = <<>>
  /\ followupPc = [h \in FollowupRequests |-> IdleFollowup]
  /\ founderTasks = NoResponse
  /\ nodeTasks = NoResponse
  /\ IdleDigest
  /\ IdleBulk
  /\ IdleStore
  /\ IdleAuth

NextFollowup ==
  \/ \E t \in ClockPoints : Tick(t)
  \/ \E h \in FollowupRequests : AdminFollowupInsert(h, 1, "node_update")
  \/ \E h \in FollowupRequests : FounderFollowupInsert(h, 1, 1, "meeting_update")
  \/ \E h \in FollowupRequests : FollowupUpdateParent(h)
  \/ DeleteIntro(1)
  \/ GetFounderTasks(1)
  \/ GetNodeTasks(1)

SpecFollowup ==
  /\ InitFollowup
  /\ [][NextFollowup]_vars
  /\ \A h \in FollowupRequests : WF_vars(FollowupUpdateParent(h))

\* log k is stored and its parent does not carry its completion time
ParentStale(k) ==
  /\ k <= Len(followupLogs)
  /\ \E id \in RowIds :
       /\ id = followupLogs[k].introRequestId
       /\ RowOf(id).updatedAt # followupLogs[k].completedAt

\* handler h has stored its log and not yet written the parent
LogInserted(h) == followupPc[h].pc = "inserted"

\* the parent carries the date and the time of the log handler h stored
ParentCaughtUp(h) ==
  /\ followupPc[h].pc = "done"
  /\ \E id \in RowIds :
       /\ id = followupPc[h].introId
       /\ RowOf(id).updatedAt = followupPc[h].at
       /\ RowOf(id).lastFollowupDate = DatePart(followupPc[h].at)
       /\ \E k \in 1..Len(followupLogs) :
            /\ followupLogs[k].introRequestId = id
            /\ followupLogs[k].completedAt = followupPc[h].at

\* both derivations have an answer for the stored rows as they are now
DerivationsAnswer ==
  /\ Len(FounderTaskList(introRequests, 1, now)) >= 0
  /\ Len(NodeTaskDigest(introRequests, 1, now)) >= 0

\* C27: the log and the parent's update are two writes; while the parent is
\* stale the derivations still answer, and whenever a log has been inserted
\* for an existing introduction the parent's lastFollowupDate and updatedAt
\* are eventually set to the log's completion date and time (by the handler
\* that stored the log; a later log's handler may overwrite them).
C27_ParentCatchesUp ==
  /\ [](\A k \in FollowupRequests : ParentStale(k) => DerivationsAnswer)
  /\ \A h \in FollowupRequests : LogInserted(h) ~> ParentCaughtUp(h)

\* a log whose parent is still stale, and a task list answered in that
\* window for the rows as they are
C27_Witness ==
  /\ \E h \in FollowupRequests : followupPc[h].pc = "inserted"
  /\ ParentStale(1)
  /\ founderTasks.sent
  /\ founderTasks.body = FounderTaskList(introRequests, 1, now)
  /\ Len(founderTasks.body) = 1

----------------------------------------------------------------------------
(* The counters of the bulk-research status *)

\* the counters agree with results and stay within total, and no investor
\* has two entries
BulkCountersConsistent ==
  LET st == bulkResearchStatus IN
    /\ st.completed + st.failed = Len(st.results)
    /\ st.completed + st.failed <= st.total
    /\ \A i, j \in 1..Len(st.results) :
         st.results[i].investorId = st.results[j].investorId => i = j

\* the step that clears the running flag finds every selected investor
\* counted and sets completedAt
BulkEndsComplete ==
  bulkResearchStatus.running /\ ~bulkResearchStatus'.running =>
    /\ bulkResearchStatus'.completed + bulkResearchStatus'.failed =
         bulkResearchStatus'.total
    /\ bulkResearchStatus'.completedAt # Null

\* C28: in every reachable state of the bulk-research status, completed +
\* failed equals the number of entries in results and never exceeds total,
\* and each investor selected for the job has at most one entry in results;
\* when running goes from true to false, completed + failed = total and
\* completedAt is set.
C28_BulkCounters ==
  /\ []BulkCountersConsistent
  /\ [][BulkEndsComplete]_vars

----------------------------------------------------------------------------
(* The background loop runs to its end: every await of the loop settles.   *)
(* The database calls are synchronous underneath, the timer fires, and the *)
(* research either returns or throws (its requests end with a response or  *)
(* with the runtime's timeout).                                            *)

SpecBulkFair ==
  /\ InitBulk
  /\ [][NextBulk]_vars
  /\ WF_vars(\E j \in DOMAIN bulkJobs, o \in {"completed", "failed"} : JobPerform(j, o))
  /\ WF_vars(\E j \in DOMAIN bulkJobs : JobRecord(j))
  /\ WF_vars(\E j \in DOMAIN bulkJobs : JobNext(j))

\* job j has been started
Started(j) == j \in DOMAIN bulkJobs

\* job j has run to the end of its loop
Finished(j) == j \in DOMAIN bulkJobs /\ bulkJobs[j].pc = "finished"

\* C29: every started bulk-research job eventually finishes and resets
\* running to false, even when researching an investor fails (the failure is
\* recorded and the loop continues), so a later POST /bulk-research is not
\* rejected forever.
C29_JobsFinish ==
  /\ \A j \in BulkRequests : Started(j) ~> Finished(j)
  /\ bulkResearchStatus.running ~> ~bulkResearchStatus.running

\* a job that recorded a failure has finished and the flag is clear
C29_Witness ==
  /\ Finished(1)
  /\ ~bulkResearchStatus.running
  /\ bulkResearchStatus.failed >= 1
  /\ bulkResearchStatus.completedAt # Null

----------------------------------------------------------------------------
(* Magic links and sessions (auth.ts for founders, admin-auth.ts for the    *)
(* admin: the same code over two pairs of maps).  A map is a function from  *)
(* <<realm, id>> to its entry; a token or session id is the number of the   *)
(* random string, in the order the strings were drawn.  authLog counts the  *)
(* links sent, lists the logins answered 200 and keeps the last answer.     *)

Realms == {"founder", "admin"}

FifteenMinutesMs == 15 * 60 * 1000

SevenDaysMs == 7 * 24 * 60 * 60 * 1000

MaxTokens == 2

\* Map.prototype.set
MapSet(map, key, value) ==
  [k \in DOMAIN map \cup {key} |-> IF k = key THEN value ELSE map[k]]

\* Map.prototype.delete
MapDelete(map, key) == [k \in DOMAIN map \ {key} |-> map[k]]

\* new Date() > entry.expires
Expired(entry, t) == t > entry.expires

Answer(route, realm, key, code) ==
  [route |-> route, realm |-> realm, key |-> key, code |-> code]

\* POST /magic-link for a known email (15 minutes), and for founders
\* POST /admin/generate-link/:founderId (7 days)
MagicLink(realm, lifetime) ==
  /\ authLog.links < MaxTokens
  /\ LET token == authLog.links + 1
     IN  /\ tokens' = MapSet(tokens, <<realm, token>>,
                             [who |-> 1, expires |-> now + lifetime])
         /\ authLog' = [authLog EXCEPT !.links = token,
                                       !.last = Answer("magic-link", realm, token, 200)]
  /\ UNCHANGED <<sessions, storeVars, digestVars, now, introVars, taskVars, bulkVars>>

\* POST /verify with the token left in the map after a login
VerifyKeepsToken(realm, token) ==
  LET key == <<realm, token>> IN
    /\ IF key \notin DOMAIN tokens
         THEN /\ authLog' = [authLog EXCEPT !.last = Answer("verify", realm, token, 401)]
              /\ UNCHANGED <<tokens, sessions>>
       ELSE IF Expired(tokens[key], now)
         THEN /\ tokens' = MapDelete(tokens, key)
              /\ authLog' = [authLog EXCEPT !.last = Answer("verify", realm, token, 401)]
              /\ UNCHANGED sessions
       ELSE LET sessionId == Len(authLog.logins) + 1
            IN  /\ sessions' = MapSet(sessions, <<realm, sessionId>>,
                                      [who |-> tokens[key].who,
                                       expires |-> now + SevenDaysMs])
                /\ UNCHANGED tokens
                /\ authLog' =
                     [authLog EXCEPT
                        !.logins = Append(@, [realm |-> realm, token |-> token,
                                              sessionId |-> sessionId]),
                        !.last = Answer("verify", realm, token, 200)]
    /\ UNCHANGED <<storeVars, digestVars, now, introVars, taskVars, bulkVars>>

\* POST /verify: from tokens.get to tokens.delete the handler does not await
Verify(realm, token) ==
  LET key == <<realm, token>> IN
    /\ IF key \notin DOMAIN tokens
         THEN /\ authLog' = [authLog EXCEPT !.last = Answer("verify", realm, token, 401)]
              /\ UNCHANGED <<tokens, sessions>>
       ELSE IF Expired(tokens[key], now)
         THEN /\ tokens' = MapDelete(tokens, key)
              /\ authLog' = [authLog EXCEPT !.last = Answer("verify", realm, token, 401)]
              /\ UNCHANGED sessions
       ELSE LET sessionId == Len(authLog.logins) + 1
            IN  /\ sessions' = MapSet(sessions, <<realm, sessionId>>,
                                      [who |-> tokens[key].who,
                                       expires |-> now + SevenDaysMs])
                /\ tokens' = MapDelete(tokens, key)
                /\ authLog' =
                     [authLog EXCEPT
                        !.logins = Append(@, [realm |-> realm, token |-> token,
                                              sessionId |-> sessionId]),
                        !.last = Answer("verify", realm, token, 200)]
    /\ UNCHANGED <<storeVars, digestVars, now, introVars, taskVars, bulkVars>>

\* POST /logout
Logout(realm, sessionId) ==
  /\ sessions' = MapDelete(sessions, <<realm, sessionId>>)
  /\ authLog' = [authLog EXCEPT !.last = Answer("logout", realm, sessionId, 200)]
  /\ UNCHANGED <<tokens, storeVars, digestVars, now, introVars, taskVars, bulkVars>>

\* getSessionFounderId, getAdminSession: the entry's owner (200), or null
\* (401) with an expired entry removed
CheckSession(realm, sessionId) ==
  LET key == <<realm, sessionId>> IN
    /\ IF key \notin DOMAIN sessions
         THEN /\ authLog' = [authLog EXCEPT !.last = Answer("session", realm, sessionId, 401)]
              /\ UNCHANGED sessions
       ELSE IF Expired(sessions[key], now)
         THEN /\ sessions' = MapDelete(sessions, key)
              /\ authLog' = [authLog EXCEPT !.last = Answer("session", realm, sessionId, 401)]
       ELSE /\ authLog' = [authLog EXCEPT !.last = Answer("session", realm, sessionId, 200)]
            /\ UNCHANGED sessions
    /\ UNCHANGED <<tokens, storeVars, digestVars, now, introVars, taskVars, bulkVars>>

\* the clock at the start, at a token's and a session's last valid instant
\* and one millisecond after each
AuthClock ==
  {0, FifteenMinutesMs, FifteenMinutesMs + 1, SevenDaysMs, SevenDaysMs + 1}

InitAuth ==
  /\ now = 0
  /\ introRequests = <<>>
  /\ founderTasks = NoResponse
  /\ nodeTasks = NoResponse
  /\ IdleIntroHandlers
  /\ IdleDigest
  /\ IdleBulk
  /\ IdleStore
  /\ IdleAuth

NextAuth ==
  \/ \E t \in AuthClock : Tick(t)
  \/ \E realm \in Realms : MagicLink(realm, FifteenMinutesMs)
  \/ MagicLink("founder", SevenDaysMs)
  \/ \E realm \in Realms, token \in 1..MaxTokens : Verify(realm, token)
  \/ \E realm \in Realms, id \in 1..MaxTokens : Logout(realm, id)
  \/ \E realm \in Realms, id \in 1..MaxTokens : CheckSession(realm, id)

SpecAuth == InitAuth /\ [][NextAuth]_vars

\* the logins answered 200 for one token
LoginsWith(realm, token) ==
  {k \in 1..Len(authLog.logins) :
     authLog.logins[k].realm = realm /\ authLog.logins[k].token = token}

\* the session ids handed out so far
SessionIdsGiven == {authLog.logins[k].sessionId : k \in 1..Len(authLog.logins)}

\* a step that adds a session is a verify of a stored, unexpired token,
\* which the step removes
SessionOnlyFromValidToken ==
  \A key \in DOMAIN sessions' \ DOMAIN sessions :
    LET t == <<key[1], authLog'.last.key>> IN
      /\ authLog'.last.route = "verify"
      /\ authLog'.last.code = 200
      /\ t \in DOMAIN tokens
      /\ now <= tokens[t].expires
      /\ t \notin DOMAIN tokens'
      /\ key[2] \notin SessionIdsGiven

\* a step that answers a verify with anything but 200 adds no session
RejectedVerifyAddsNothing ==
  authLog'.last.route = "verify" /\ authLog'.last.code # 200 =>
    DOMAIN sessions' \subseteq DOMAIN sessions

\* a session id is accepted only while its entry is stored and unexpired
AcceptedOnlyWhileValid ==
  authLog' # authLog /\ authLog'.last.route = "session" /\ authLog'.last.code = 200 =>
    LET key == <<authLog'.last.realm, authLog'.last.key>> IN
      /\ key \in DOMAIN sessions
      /\ now <= sessions[key].expires

\* a logout removes the session
LogoutRemoves ==
  authLog'.last.route = "logout" /\ authLog' # authLog =>
    <<authLog'.last.realm, authLog'.last.key>> \notin DOMAIN sessions'

\* C30: a magic-link token creates at most one session: a successful verify
\* removes the token, so a later verify with it is answered 401 and creates
\* no session; a verify with an expired or unknown token never creates a
\* session; a session id is accepted only while its entry exists and has
\* not expired, never after logout (a removed id is never given again).
C30_OneSessionPerToken ==
  /\ [](\A realm \in Realms, token \in 1..MaxTokens :
          Cardinality(LoginsWith(realm, token)) <= 1)
  /\ [][/\ SessionOnlyFromValidToken
        /\ RejectedVerifyAddsNothing
        /\ AcceptedOnlyWhileValid
        /\ LogoutRemoves]_vars

\* token 1 has logged a founder in once, and a second verify with it has
\* just been answered 401 while its session is still stored
C30_Witness ==
  /\ Cardinality(LoginsWith("founder", 1)) = 1
  /\ authLog.last = Answer("verify", "founder", 1, 401)
  /\ <<"founder", 1>> \in DOMAIN sessions
  /\ now <= FifteenMinutesMs

====
